---- MODULE Spec2Model ----
(***************************************************************************)
(* A model of the geobed geocoder (package geobed): the forward geocoder   *)
(* Geocode with its parser and its two matchers, the reverse geocoder      *)
(* ReverseGeocode over the cell index, and the string interner behind the  *)
(* country and region codes of a city record.                              *)
(*                                                                         *)
(* A Go string is a sequence of bytes (integers 0..255); a rune is an      *)
(* integer code point.  Conversions between the two are computed the way   *)
(* the Go runtime computes them, ill-formed input included.                *)
(***************************************************************************)
EXTENDS Integers, Sequences, FiniteSets, TLC

VARIABLES
    Cities,                 \* g.Cities: the arena, sorted by lower-cased name
    Countries,              \* g.Countries: the country sequence, in file order
    nameIndex,              \* g.nameIndex: lower-cased name -> arena indices
    cellIndex,              \* g.cellIndex: cell -> arena indices
    countryInterner,        \* the package's interner of country codes
    regionInterner,         \* the package's interner of region codes
    adminFile,              \* <dataDir>/admin1CodesASCII.txt: Missing or FileOf(lines)
    adminDivisionsCache,    \* adminDivisionsCache[dataDir]: NotLoaded or Loaded(table)
    pc,                     \* where the query in progress stands
    call,                   \* the query in progress or just answered
    scores,                 \* bestMatchingKeys of the Geocode call in progress
    result,                 \* the record the last query returned
    previous,               \* the record the same query returned the time before
    input,                  \* SpecInput: the string a caller passes to Geocode
    handed,                 \* SpecInput: what Geocode hands to parser and matcher
    si,                     \* SpecIntern: a stringInterner[T] shared by goroutines
    mu,                     \* SpecIntern: si.mu, who holds the sync.RWMutex
    goroutines,             \* SpecIntern: each goroutine's call in progress
    returned,               \* SpecIntern: the <<string, handle>> pairs intern returned
    cacheFiles,             \* SpecBuild: the three blobs of ./geobed-cache
    dataFiles,              \* SpecBuild: whether the raw files are in ./geobed-data
    downloadMu,             \* SpecBuild: who holds the package's downloadMu
    builders,               \* SpecBuild: each goroutine's constructor call in progress
    defaultGeobedOnce,      \* SpecBuild: the sync.Once of GetDefaultGeobed
    defaultGeobed,          \* SpecBuild: defaultGeobed and defaultGeobedErr
    defaultReturns,         \* SpecBuild: what the GetDefaultGeobed calls returned
    adminQuery,             \* SpecAdmin: the admin-division lookup last made
    adminAnswer,            \* SpecAdmin: what that lookup returned
    parse,                  \* SpecParse: the extractLocationPieces call and its locals
    zipEntry,               \* SpecIngest: the lines of the cities1000 zip entry
    ingestPc,               \* SpecIngest: where loadGeonamesCities stands
    adminDivisionsCacheMu,  \* SpecLoad: who holds the sync.RWMutex of the cache
    loaders,                \* SpecLoad: each goroutine's loadAdminDivisionsForDir call
    opens                   \* SpecLoad: the os.Open calls on the admin file so far

instanceVars == <<Cities, Countries, nameIndex, cellIndex, countryInterner,
                  regionInterner, adminFile>>

queryVars == <<adminDivisionsCache, pc, call, scores, result, previous>>

inputVars == <<input, handed>>

internVars == <<si, mu, goroutines, returned>>

buildVars == <<cacheFiles, dataFiles, downloadMu, builders, defaultGeobedOnce,
               defaultGeobed, defaultReturns>>

adminVars == <<adminQuery, adminAnswer>>

parseVars == <<parse>>

ingestVars == <<zipEntry, ingestPc>>

loadVars == <<adminDivisionsCacheMu, loaders, opens>>

laterVars == <<parseVars, ingestVars, loadVars>>

vars == <<instanceVars, queryVars, inputVars, internVars, buildVars, adminVars,
          laterVars>>

(***************************************************************************)
(* Generic helpers on sequences and sets.                                  *)
(***************************************************************************)
Min(a, b) == IF a <= b THEN a ELSE b

Max(a, b) == IF a >= b THEN a ELSE b

\* s[from..] as Go writes it with 0-based from: the bytes after the first `from`
Drop(s, from) == SubSeq(s, from + 1, Len(s))

\* s[:to]
Take(s, to) == SubSeq(s, 1, to)

IsPrefix(p, s) == Len(p) <= Len(s) /\ Take(s, Len(p)) = p

IsSuffix(p, s) == Len(p) <= Len(s) /\ Drop(s, Len(s) - Len(p)) = p

\* strings.Repeat(u, n)
Repeat(u, n) ==
    IF n <= 0 \/ u = <<>> THEN <<>>
    ELSE [i \in 1..(n * Len(u)) |-> u[((i - 1) % Len(u)) + 1]]

(***************************************************************************)
(* UTF-8, as the Go runtime decodes and encodes it.                        *)
(***************************************************************************)
RuneError == 65533

MaxRune == 1114111

\* the range the second byte of a sequence led by b0 must lie in
AcceptLo(b0) == IF b0 = 224 THEN 160 ELSE IF b0 = 240 THEN 144 ELSE 128

AcceptHi(b0) == IF b0 = 237 THEN 159 ELSE IF b0 = 244 THEN 143 ELSE 191

\* the length the lead byte b0 announces; 0 for a byte that leads nothing
SeqLen(b0) ==
    IF b0 < 128 THEN 1
    ELSE IF b0 >= 194 /\ b0 <= 223 THEN 2
    ELSE IF b0 >= 224 /\ b0 <= 239 THEN 3
    ELSE IF b0 >= 240 /\ b0 <= 244 THEN 4
    ELSE 0

IsCont(b) == b >= 128 /\ b <= 191

\* utf8.DecodeRuneInString(s[i-1:]): the rune at 1-based position i and its width
DecodeRune(s, i) ==
    LET b0 == s[i]
        sz == SeqLen(b0)
        bad == [r |-> RuneError, w |-> 1]
    IN  IF sz = 1 THEN [r |-> b0, w |-> 1]
        ELSE IF sz = 0 \/ i + sz - 1 > Len(s) THEN bad
        ELSE IF s[i + 1] < AcceptLo(b0) \/ s[i + 1] > AcceptHi(b0) THEN bad
        ELSE IF sz = 2 THEN [r |-> (b0 % 32) * 64 + (s[i + 1] % 64), w |-> 2]
        ELSE IF ~IsCont(s[i + 2]) THEN bad
        ELSE IF sz = 3
             THEN [r |-> (b0 % 16) * 4096 + (s[i + 1] % 64) * 64 + (s[i + 2] % 64),
                   w |-> 3]
        ELSE IF ~IsCont(s[i + 3]) THEN bad
        ELSE [r |-> (b0 % 8) * 262144 + (s[i + 1] % 64) * 4096
                     + (s[i + 2] % 64) * 64 + (s[i + 3] % 64),
              w |-> 4]

\* utf8.EncodeRune / string(rune)
EncodeRune(r) ==
    IF r < 0 \/ r > MaxRune \/ (r >= 55296 /\ r <= 57343) THEN <<239, 191, 189>>
    ELSE IF r < 128 THEN <<r>>
    ELSE IF r < 2048 THEN <<192 + (r \div 64), 128 + (r % 64)>>
    ELSE IF r < 65536
         THEN <<224 + (r \div 4096), 128 + ((r \div 64) % 64), 128 + (r % 64)>>
    ELSE <<240 + (r \div 262144), 128 + ((r \div 4096) % 64),
           128 + ((r \div 64) % 64), 128 + (r % 64)>>

\* up to k runes of s from position i on, each with its position and width,
\* and the position after them
RECURSIVE DecodeChunk(_, _, _)
DecodeChunk(s, i, k) ==
    IF k = 0 \/ i > Len(s) THEN [ds |-> <<>>, next |-> i]
    ELSE LET d == DecodeRune(s, i)
             rest == DecodeChunk(s, i + d.w, k - 1)
         IN  [ds |-> <<[r |-> d.r, w |-> d.w, at |-> i]>> \o rest.ds, next |-> rest.next]

\* the decoding loop, written in two levels (sixteen runes at a time) to keep
\* the evaluation shallow on long strings
RECURSIVE DecodeFrom(_, _)
DecodeFrom(s, i) ==
    IF i > Len(s) THEN <<>>
    ELSE LET c == DecodeChunk(s, i, 16) IN c.ds \o DecodeFrom(s, c.next)

\* the runes a range loop over s visits: an ill-formed byte is read as U+FFFD,
\* one byte wide
Decoded(s) == DecodeFrom(s, 1)

\* []rune(s)
RunesOf(D) == [j \in 1..Len(D) |-> D[j].r]

Runes(s) == RunesOf(Decoded(s))

\* string(rs[lo..hi]) for a rune slice rs
RECURSIVE EncodeRange(_, _, _)
EncodeRange(rs, lo, hi) ==
    IF lo > hi THEN <<>>
    ELSE IF lo = hi THEN EncodeRune(rs[lo])
    ELSE LET mid == (lo + hi) \div 2
         IN  EncodeRange(rs, lo, mid) \o EncodeRange(rs, mid + 1, hi)

\* string(rs)
StringOfRunes(rs) == EncodeRange(rs, 1, Len(rs))

\* utf8.ValidString: no byte of s is ill-formed
ValidDecoded(D) == \A j \in 1..Len(D) : ~(D[j].r = RuneError /\ D[j].w = 1)

ValidString(s) == ValidDecoded(Decoded(s))

\* unicode.IsSpace
IsSpace(r) ==
    \/ r \in {9, 10, 11, 12, 13, 32, 133, 160, 5760, 8232, 8233, 8239, 8287, 12288}
    \/ (r >= 8192 /\ r <= 8202)

\* strings.TrimSpace: s without the white-space runes it starts and ends with
\* s between its first and its last rune that is no white space, D being the
\* decoding of s and solid the positions in D of those runes
TrimBetween(s, D, solid) ==
    IF solid = {} THEN <<>>
    ELSE SubSeq(s, D[CHOOSE j \in solid : \A k \in solid : j <= k].at,
                   D[CHOOSE j \in solid : \A k \in solid : k <= j].at
                   + D[CHOOSE j \in solid : \A k \in solid : k <= j].w - 1)

TrimDecoded(s, D) == TrimBetween(s, D, {j \in 1..Len(D) : ~IsSpace(D[j].r)})

TrimSpace(s) == TrimDecoded(s, Decoded(s))

(***************************************************************************)
(* The string functions the geocoder calls.  The parser and the matchers   *)
(* are run on ASCII text, where a byte is a rune and case mapping is the   *)
(* ASCII one.                                                              *)
(***************************************************************************)
IsUpper(b) == b >= 65 /\ b <= 90

IsLower(b) == b >= 97 /\ b <= 122

IsLetter(b) == IsUpper(b) \/ IsLower(b)

\* a word character of the regexp syntax: [0-9A-Za-z_]
IsWordChar(b) == IsLetter(b) \/ (b >= 48 /\ b <= 57) \/ b = 95

\* strings.ToLower
toLower(s) == [i \in 1..Len(s) |-> IF IsUpper(s[i]) THEN s[i] + 32 ELSE s[i]]

\* strings.ToUpper
toUpper(s) == [i \in 1..Len(s) |-> IF IsLower(s[i]) THEN s[i] - 32 ELSE s[i]]

\* strings.EqualFold
EqualFold(a, b) == toLower(a) = toLower(b)

\* a < b on Go strings: bytewise lexicographic order
StringLess(a, b) ==
    \E k \in 1..(Len(b)) :
        /\ \A j \in 1..(k - 1) : j <= Len(a) /\ a[j] = b[j]
        /\ k - 1 <= Len(a)
        /\ (k > Len(a) \/ a[k] < b[k])

\* strings.Contains
Contains(s, sub) ==
    \E i \in 0..(Len(s) - Len(sub)) : SubSeq(s, i + 1, i + Len(sub)) = sub

\* strings.Trim(s, cutset): s without the leading and trailing bytes in cutset
Trim(s, cutset) ==
    LET keep == {i \in 1..Len(s) : s[i] \notin cutset}
    IN  IF keep = {} THEN <<>>
        ELSE SubSeq(s, CHOOSE i \in keep : \A k \in keep : i <= k,
                       CHOOSE i \in keep : \A k \in keep : k <= i)

\* strings.TrimSuffix
TrimSuffix(s, suffix) ==
    IF IsSuffix(suffix, s) THEN Take(s, Len(s) - Len(suffix)) ELSE s

\* strings.Split(s, sep) for a one-byte separator: always at least one piece
RECURSIVE SplitFrom(_, _, _)
SplitFrom(s, sep, i) ==
    LET hits == {k \in i..Len(s) : s[k] = sep}
    IN  IF hits = {} THEN <<SubSeq(s, i, Len(s))>>
        ELSE LET k == CHOOSE h \in hits : \A j \in hits : h <= j
             IN  <<SubSeq(s, i, k - 1)>> \o SplitFrom(s, sep, k + 1)

Split(s, sep) == SplitFrom(s, sep, 1)

\* strings.Join(parts, sep)
RECURSIVE Join(_, _)
Join(parts, sep) ==
    IF parts = <<>> THEN <<>>
    ELSE IF Len(parts) = 1 THEN parts[1]
    ELSE parts[1] \o sep \o Join(Tail(parts), sep)

\* levenshtein.ComputeDistance(a, b): the edit distance of two rune strings
RECURSIVE LevRow(_, _, _, _)
LevRow(a, b, i, prev) ==
    \* prev is row i-1 of the distance table, as a function on 0..Len(b)
    IF i > Len(a) THEN prev[Len(b)]
    ELSE LET RECURSIVE Cell(_)
             Cell(j) == IF j = 0 THEN i
                        ELSE Min(Min(prev[j] + 1, Cell(j - 1) + 1),
                                 prev[j - 1] + (IF a[i] = b[j] THEN 0 ELSE 1))
         IN  LevRow(a, b, i + 1, [j \in 0..Len(b) |-> Cell(j)])

ComputeDistance(a, b) == LevRow(a, b, 1, [j \in 0..Len(b) |-> j])

\* fuzzyMatch(query, candidate, maxDist)
fuzzyMatch(query, candidate, maxDist) ==
    IF maxDist = 0 THEN EqualFold(query, candidate)
    ELSE ComputeDistance(toLower(query), toLower(candidate)) <= maxDist

\* abbrevRegex().FindAllString(n, -1): the words of n made of two or three
\* letters, in order (a word is a maximal run of word characters)
RECURSIVE WordsFrom(_, _)
WordsFrom(n, i) ==
    IF i > Len(n) THEN <<>>
    ELSE IF ~IsWordChar(n[i]) THEN WordsFrom(n, i + 1)
    ELSE LET ends == {k \in i..Len(n) : k = Len(n) \/ ~IsWordChar(n[k + 1])}
             e == CHOOSE k \in ends : \A j \in ends : k <= j
         IN  <<SubSeq(n, i, e)>> \o WordsFrom(n, e + 1)

FindAbbrevs(n) ==
    SelectSeq(WordsFrom(n, 1),
              LAMBDA w : Len(w) >= 2 /\ Len(w) <= 3 /\ \A k \in 1..Len(w) : IsLetter(w[k]))

(***************************************************************************)
(* Text of the model's data: Str(<<"P", "a">>) is the Go string "Pa".      *)
(***************************************************************************)
UpperLetters == <<"A", "B", "C", "D", "E", "F", "G", "H", "I", "J", "K", "L", "M",
                  "N", "O", "P", "Q", "R", "S", "T", "U", "V", "W", "X", "Y", "Z">>

LowerLetters == <<"a", "b", "c", "d", "e", "f", "g", "h", "i", "j", "k", "l", "m",
                  "n", "o", "p", "q", "r", "s", "t", "u", "v", "w", "x", "y", "z">>

Digits == <<"0", "1", "2", "3", "4", "5", "6", "7", "8", "9">>

ByteOf(c) ==
    IF \E i \in 1..26 : UpperLetters[i] = c
    THEN 64 + (CHOOSE i \in 1..26 : UpperLetters[i] = c)
    ELSE IF \E i \in 1..26 : LowerLetters[i] = c
    THEN 96 + (CHOOSE i \in 1..26 : LowerLetters[i] = c)
    ELSE IF c = " " THEN 32
    ELSE IF c = "," THEN 44
    ELSE IF c = "." THEN 46
    ELSE IF c = "\t" THEN 9
    ELSE IF c = "-" THEN 45
    ELSE IF \E i \in 1..10 : Digits[i] = c
    THEN 47 + (CHOOSE i \in 1..10 : Digits[i] = c)
    ELSE 63

Str(t) == [i \in 1..Len(t) |-> ByteOf(t[i])]

\* the strings of the set S in ascending order (sort.Strings)
RECURSIVE SortStrings(_)
SortStrings(S) ==
    IF S = {} THEN <<>>
    ELSE LET m == CHOOSE x \in S : \A y \in S : ~StringLess(y, x)
         IN  <<m>> \o SortStrings(S \ {m})

(***************************************************************************)
(* stringInterner[T]: lookup[k + 1] is the string of handle k, index the   *)
(* map from string to handle, max the largest value of the handle type T.  *)
(***************************************************************************)
NoString == <<>>

\* newStringInterner: handle 0 is the empty string
newStringInterner(max) ==
    [lookup |-> <<NoString>>, index |-> (NoString :> 0), max |-> max]

Overflowed == "panic: stringInterner capacity exceeded"

\* `idx, ok := si.index[s]`: ok
IndexHit(table, s) == s \in DOMAIN table.index

\* the second look, under the write lock, left out
Recheck_skipped(table, s) == FALSE

\* the second `si.index[s]` of intern, under the write lock
Recheck(table, s) == IndexHit(table, s)

\* the capacity test one entry too early
CapacityExceeded_oneEarly(table) == Len(table.lookup) >= table.max

\* len(si.lookup) > maxVal
CapacityExceeded(table) == Len(table.lookup) > table.max

\* T(n): the conversion of an int to the handle type, which keeps the low bits
HandleOf(table, n) == n % (table.max + 1)

\* si.lookup = append(si.lookup, s)
AppendLookup(table, s) == [table EXCEPT !.lookup = Append(@, s)]

\* the handle taken from the length of si.lookup after the append
SetIndex_afterAppend(table, s, idx) ==
    [table EXCEPT !.index = (s :> Len(table.lookup)) @@ @]

\* si.index[s] = idx
SetIndex(table, s, idx) == [table EXCEPT !.index = (s :> idx) @@ @]

\* intern(s), run alone: the handle of s, appended when s is new; a panic when
\* the handle type has no value left
InternHandle(table, s) ==
    IF IndexHit(table, s) THEN table.index[s]
    ELSE IF CapacityExceeded(table) THEN Overflowed
    ELSE HandleOf(table, Len(table.lookup))

InternTable(table, s) ==
    IF IndexHit(table, s) \/ CapacityExceeded(table) THEN table
    ELSE SetIndex(AppendLookup(table, s), s, HandleOf(table, Len(table.lookup)))

\* get(idx)
InternerGet(table, idx) ==
    IF idx < Len(table.lookup) THEN table.lookup[idx + 1] ELSE NoString

\* count()
InternerCount(table) == Len(table.lookup)

\* the largest value of uint16, the handle type of both package interners
MaxUint16 == 65535

\* the interner after interning the strings of the sequence ss in order
RECURSIVE InternAll(_, _)
InternAll(table, ss) ==
    IF ss = <<>> THEN table ELSE InternAll(InternTable(table, Head(ss)), Tail(ss))

\* sync.RWMutex: the goroutines holding the read lock, the one holding the
\* write lock
NoGoroutine == 0

Unlocked == [readers |-> {}, writer |-> NoGoroutine]

\* RLock returns
CanRLock(m) == m.writer = NoGoroutine

\* Lock returns
CanLock(m) == m.writer = NoGoroutine /\ m.readers = {}

RLock(m, g) == [m EXCEPT !.readers = @ \cup {g}]

RUnlock(m, g) == [m EXCEPT !.readers = @ \ {g}]

Lock(m, g) == [m EXCEPT !.writer = g]

Unlock(m, g) == [m EXCEPT !.writer = NoGoroutine]

\* how many goroutines share the interner
NumGoroutines == 2

\* the largest value of the handle type T of the shared interner
MaxHandle == 2

Goroutines == 1..NumGoroutines

\* a goroutine with no call in progress
Idle ==
    [pc |-> "idle", op |-> "none", s |-> NoString, h |-> 0, known |-> FALSE,
     chained |-> FALSE, idx |-> 0, got |-> NoString, n |-> 0, path |-> "none"]

\* the shared interner as constructed, no goroutine started
InternerAtRest ==
    /\ si = newStringInterner(MaxHandle)
    /\ mu = Unlocked
    /\ goroutines = [g \in Goroutines |-> Idle]
    /\ returned = {}

(***************************************************************************)
(* City records and their accessors.                                       *)
(***************************************************************************)
\* GeobedCity{}: the zero value, returned for "no match"
ZeroCity ==
    [City |-> <<>>, CityAlt |-> <<>>, country |-> 0, region |-> 0,
     Latitude |-> 0, Longitude |-> 0, Population |-> 0]

\* GeobedCity.Country()
Country(c) == InternerGet(countryInterner, c.country)

\* GeobedCity.Region()
Region(c) == InternerGet(regionInterner, c.region)

(***************************************************************************)
(* Admin divisions: the table of a data directory.                         *)
(***************************************************************************)
\* no file of that name in the data directory
Missing == [exists |-> FALSE, lines |-> <<>>]

\* a file with these lines
FileOf(lines) == [exists |-> TRUE, lines |-> lines]

\* no cache entry for the data directory yet
NotLoaded == [loaded |-> FALSE, divisions |-> <<>>]

\* the cache entry loadAdminDivisionsForDir stores
Loaded(divisions) == [loaded |-> TRUE, divisions |-> divisions]

\* strings.SplitN(s, ".", 2)
SplitDot2(s) ==
    LET hits == {k \in 1..Len(s) : s[k] = 46}
    IN  IF hits = {} THEN <<s>>
        ELSE LET k == CHOOSE h \in hits : \A j \in hits : h <= j
             IN  <<Take(s, k - 1), Drop(s, k)>>

\* the scanner loop of loadAdminDivisionsForDir over the lines from i on:
\* divisions as a function from <<country, code>> to the division name
RECURSIVE ScanAdminLines(_, _, _)
ScanAdminLines(lines, i, divisions) ==
    IF i > Len(lines) THEN divisions
    ELSE LET line == lines[i]
             fields == Split(line, 9)
             parts == SplitDot2(fields[1])
         IN  IF line = <<>> \/ Len(fields) < 2 \/ Len(parts) # 2
             THEN ScanAdminLines(lines, i + 1, divisions)
             ELSE ScanAdminLines(lines, i + 1,
                      (<<parts[1], parts[2]>> :> fields[2]) @@ divisions)

\* what loadAdminDivisionsForDir builds when the directory is not cached yet
ReadAdminFile(file) ==
    IF ~file.exists THEN <<>> ELSE ScanAdminLines(file.lines, 1, <<>>)

\* loadAdminDivisionsForDir(g.config.DataDir): the table it returns
loadAdminDivisionsForDir ==
    IF adminDivisionsCache.loaded THEN adminDivisionsCache.divisions
    ELSE ReadAdminFile(adminFile)

\* isAdminDivision(countryCode, divisionCode)
isAdminDivision(countryCode, divisionCode) ==
    <<countryCode, toUpper(divisionCode)>> \in DOMAIN loadAdminDivisionsForDir

\* getAdminDivisionCountry(code)
getAdminDivisionCountry(code) ==
    LET divisions == loadAdminDivisionsForDir
        matches == {k[1] : k \in {d \in DOMAIN divisions : d[2] = toUpper(code)}}
    IN  IF Cardinality(matches) = 1 THEN CHOOSE c \in matches : TRUE ELSE NoString

\* getAdminDivisionName(countryCode, divisionCode)
getAdminDivisionName(countryCode, divisionCode) ==
    LET divisions == loadAdminDivisionsForDir
        key == <<countryCode, toUpper(divisionCode)>>
    IN  IF key \in DOMAIN divisions THEN divisions[key] ELSE NoString

\* an admin-division lookup: the function called and its arguments
AdminQuery(op, countryCode, code) == [op |-> op, countryCode |-> countryCode, code |-> code]

\* what a lookup returned: the bool of isAdminDivision or the string of the
\* other two
AdminAnswer(exists, text) == [exists |-> exists, text |-> text]

\* no lookup made yet
AdminAtRest ==
    /\ adminQuery = AdminQuery("none", NoString, NoString)
    /\ adminAnswer = AdminAnswer(FALSE, NoString)

(***************************************************************************)
(* The parser, extractLocationPieces.                                      *)
(***************************************************************************)
UsStateCodes ==
    { Str(t) : t \in
      { <<"A","L">>, <<"A","K">>, <<"A","Z">>, <<"A","R">>, <<"C","A">>, <<"C","O">>,
        <<"C","T">>, <<"D","E">>, <<"F","L">>, <<"G","A">>, <<"H","I">>, <<"I","D">>,
        <<"I","L">>, <<"I","N">>, <<"I","A">>, <<"K","S">>, <<"K","Y">>, <<"L","A">>,
        <<"M","E">>, <<"M","D">>, <<"M","A">>, <<"M","I">>, <<"M","N">>, <<"M","S">>,
        <<"M","O">>, <<"M","T">>, <<"N","E">>, <<"N","V">>, <<"N","H">>, <<"N","J">>,
        <<"N","M">>, <<"N","Y">>, <<"N","C">>, <<"N","D">>, <<"O","H">>, <<"O","K">>,
        <<"O","R">>, <<"P","A">>, <<"R","I">>, <<"S","C">>, <<"S","D">>, <<"T","N">>,
        <<"T","X">>, <<"U","T">>, <<"V","T">>, <<"V","A">>, <<"W","A">>, <<"W","V">>,
        <<"W","I">>, <<"W","Y">>,
        <<"A","S">>, <<"D","C">>, <<"F","M">>, <<"G","U">>, <<"M","H">>, <<"M","P">>,
        <<"P","W">>, <<"P","R">>, <<"V","I">>,
        <<"A","A">>, <<"A","E">>, <<"A","P">> } }

sortedUsStateCodes == SortStrings(UsStateCodes)

CommaSpace == <<44, 32>>

Space == <<32>>

\* the five shapes a name (lower-cased: nameLower) can take in the input n,
\* tried in the order of the code; hit tells whether one matched and rest is
\* the input without the matched span
ShapeMatch(n, nameLower) ==
    LET nLower == toLower(n)
        prefixWithComma == nameLower \o CommaSpace
        prefixWithSpace == nameLower \o Space
        suffixWithComma == CommaSpace \o nameLower
        suffixWithSpace == Space \o nameLower
    IN  IF nLower = nameLower
        THEN [hit |-> TRUE, rest |-> <<>>]
        ELSE IF Len(nLower) > Len(prefixWithComma) /\ IsPrefix(prefixWithComma, nLower)
        THEN [hit |-> TRUE, rest |-> Drop(n, Len(prefixWithComma))]
        ELSE IF Len(nLower) > Len(prefixWithSpace) /\ IsPrefix(prefixWithSpace, nLower)
        THEN [hit |-> TRUE, rest |-> Drop(n, Len(prefixWithSpace))]
        ELSE IF Len(nLower) > Len(suffixWithComma) /\ IsSuffix(suffixWithComma, nLower)
        THEN [hit |-> TRUE, rest |-> Take(n, Len(n) - Len(suffixWithComma))]
        ELSE IF Len(nLower) > Len(suffixWithSpace) /\ IsSuffix(suffixWithSpace, nLower)
        THEN [hit |-> TRUE, rest |-> Take(n, Len(n) - Len(suffixWithSpace))]
        ELSE [hit |-> FALSE, rest |-> n]

\* the loop over g.Countries without its break: the last match wins
ExtractCountry_lastHit(n) ==
    LET hits == {i \in 1..Len(Countries) :
                    ShapeMatch(n, toLower(Countries[i].Country)).hit}
    IN  IF hits = {} THEN [nCo |-> NoString, n |-> n]
        ELSE LET i == CHOOSE h \in hits : \A j \in hits : h >= j
             IN  [nCo |-> Countries[i].ISO,
                  n |-> ShapeMatch(n, toLower(Countries[i].Country)).rest]

\* the loop over g.Countries: the first country whose name matches wins
ExtractCountry(n) ==
    LET hits == {i \in 1..Len(Countries) :
                    ShapeMatch(n, toLower(Countries[i].Country)).hit}
    IN  IF hits = {} THEN [nCo |-> NoString, n |-> n]
        ELSE LET i == CHOOSE h \in hits : \A j \in hits : h <= j
             IN  [nCo |-> Countries[i].ISO,
                  n |-> ShapeMatch(n, toLower(Countries[i].Country)).rest]

\* the loop over the state codes without its break: the last match wins
ExtractState_lastHit(n) ==
    LET codes == sortedUsStateCodes
        hits == {i \in 1..Len(codes) : ShapeMatch(n, toLower(codes[i])).hit}
    IN  IF hits = {} THEN [nSt |-> NoString, n |-> n]
        ELSE LET i == CHOOSE h \in hits : \A j \in hits : h >= j
             IN  [nSt |-> codes[i], n |-> ShapeMatch(n, toLower(codes[i])).rest]

\* the loop over sortedUsStateCodes(): the first code that matches wins
ExtractState(n) ==
    LET codes == sortedUsStateCodes
        hits == {i \in 1..Len(codes) : ShapeMatch(n, toLower(codes[i])).hit}
    IN  IF hits = {} THEN [nSt |-> NoString, n |-> n]
        ELSE LET i == CHOOSE h \in hits : \A j \in hits : h <= j
             IN  [nSt |-> codes[i], n |-> ShapeMatch(n, toLower(codes[i])).rest]

\* whether the parser, given n, calls isAdminDivision or getAdminDivisionCountry
\* (and with it loadAdminDivisionsForDir); co and st are the output of the two
\* loops above
AdminLookupDone(co, st) ==
    LET parts == Split(st.n, 32)
        lastPart == Trim(parts[Len(parts)], {32, 44})
    IN  /\ st.nSt = NoString
        /\ Len(parts) >= 2
        /\ Len(lastPart) >= 2 /\ Len(lastPart) <= 3

\* the international admin-division step
ExtractAdmin(co, st) ==
    LET nCo0 == IF st.nSt # NoString /\ co.nCo = NoString THEN Str(<<"U", "S">>)
                ELSE co.nCo
        parts == Split(st.n, 32)
        lastPart == Trim(parts[Len(parts)], {32, 44})
        lastPartUpper == toUpper(lastPart)
        front == Join(Take(parts, Len(parts) - 1), Space)
        same == [nCo |-> nCo0, nSt |-> st.nSt, n |-> st.n]
    IN  IF ~AdminLookupDone(co, st) THEN same
        ELSE IF nCo0 # NoString /\ isAdminDivision(nCo0, lastPartUpper)
        THEN [nCo |-> nCo0, nSt |-> lastPartUpper, n |-> front]
        ELSE IF nCo0 = NoString /\ getAdminDivisionCountry(lastPartUpper) # NoString
        THEN [nCo |-> getAdminDivisionCountry(lastPartUpper),
              nSt |-> lastPartUpper, n |-> front]
        ELSE same

\* extractLocationPieces(n): (nCo, nSt, abbrevSlice, nSlice), and whether the
\* admin-division table was consulted on the way
LocationPieces(n, ad, adminLookup) ==
    [nCo |-> ad.nCo, nSt |-> ad.nSt,
     abbrevSlice |-> FindAbbrevs(n),
     nSlice |-> Split(Trim(ad.n, {32, 44}), 32),
     adminLookup |-> adminLookup]

\* the parser from the admin-division step on, co and st being the output of
\* the country loop and of the state loop
PiecesAfterState(n, co, st) ==
    LocationPieces(n, ExtractAdmin(co, st), AdminLookupDone(co, st))

\* the parser from the state loop on
PiecesAfterCountry(n, co) == PiecesAfterState(n, co, ExtractState(co.n))

extractLocationPieces(n) == PiecesAfterCountry(n, ExtractCountry(n))

(***************************************************************************)
(* Construction: the arena, the interners and the two indices.             *)
(***************************************************************************)
\* the record of the arena for a stored city gc (geobedCityGob): the codes
\* replaced by their handles
ArenaCity(gc, cInt, rInt) ==
    [City |-> gc.City, CityAlt |-> gc.CityAlt,
     country |-> InternHandle(cInt, gc.Country),
     region |-> InternHandle(rInt, gc.Region),
     Latitude |-> gc.Latitude, Longitude |-> gc.Longitude,
     Population |-> gc.Population]

\* Cities.Less: the order sort.Sort(g.Cities) establishes
CitiesLess(a, b) == StringLess(toLower(a.City), toLower(b.City))

IsSortedArena(cs) ==
    \A i \in 1..Len(cs) : \A j \in (i + 1)..Len(cs) : ~CitiesLess(cs[j], cs[i])

TrimEach(parts) == [k \in 1..Len(parts) |-> TrimSpace(parts[k])]

\* the non-empty trimmed alternate names of a city, in field order
AltNames(city) ==
    IF city.CityAlt = <<>> THEN <<>>
    ELSE SelectSeq(TrimEach(Split(city.CityAlt, 44)), LAMBDA alt : alt # <<>>)

LowerEach(names) == [k \in 1..Len(names) |-> toLower(names[k])]

\* the name-index loop without its alternate-name branch
NameKeys_primaryOnly(city) ==
    IF city.City # <<>> THEN <<toLower(city.City)>> ELSE <<>>

\* the keys the name-index loop files city under, in the order it appends
NameKeys(city) ==
    (IF city.City # <<>> THEN <<toLower(city.City)>> ELSE <<>>)
    \o LowerEach(AltNames(city))

\* how often key occurs among keys
KeyCount(keys, key) == Cardinality({k \in 1..Len(keys) : keys[k] = key})

\* the posting list of key, keysOf[i] being the keys of the city at index i:
\* every arena index, in ascending order, once per occurrence of the key among
\* the city's names
RECURSIVE Postings(_, _, _)
Postings(keysOf, key, i) ==
    IF i > Len(keysOf) THEN <<>>
    ELSE [k \in 1..KeyCount(keysOf[i], key) |-> i] \o Postings(keysOf, key, i + 1)

IndexKeys(keysOf) ==
    [key \in UNION {{keysOf[i][k] : k \in 1..Len(keysOf[i])} : i \in 1..Len(keysOf)}
        |-> Postings(keysOf, key, 1)]

\* the name-index loop of loadDataSets
BuildNameIndex(cs) == IndexKeys([i \in 1..Len(cs) |-> NameKeys(cs[i])])

\* the angle of a quarter circle, the width of one face of the S2 cube, in
\* units of 1e-5 radian: the unit of every coordinate and distance below
QuarterTurn == 157080

s2CellLevel == 10

\* the edge of a level-10 cell: a face is 2^10 cells wide
CellEdge == QuarterTurn \div (2 ^ s2CellLevel)

\* s2.CellIDFromLatLng(ll).Parent(s2CellLevel): cells are the squares of a grid
CellOf(lat, lng) == <<lat \div CellEdge, lng \div CellEdge>>

\* the loop that assigns "[]int{i}" where buildCellIndex appends i
BuildCellIndex_lastOnly(cs) ==
    LET cells == {CellOf(cs[i].Latitude, cs[i].Longitude) : i \in 1..Len(cs)}
    IN  [cell \in cells |->
            <<CHOOSE i \in 1..Len(cs) :
                /\ CellOf(cs[i].Latitude, cs[i].Longitude) = cell
                /\ \A j \in (i + 1)..Len(cs) :
                      CellOf(cs[j].Latitude, cs[j].Longitude) # cell>>]

\* buildCellIndex
BuildCellIndex(cs) ==
    LET cells == {CellOf(cs[i].Latitude, cs[i].Longitude) : i \in 1..Len(cs)}
    IN  [cell \in cells |->
            SelectSeq([i \in 1..Len(cs) |-> i],
                      LAMBDA i : CellOf(cs[i].Latitude, cs[i].Longitude) = cell)]

\* cell.EdgeNeighbors(): down, right, up, left
EdgeNeighbors(cell) ==
    << <<cell[1], cell[2] - 1>>, <<cell[1] + 1, cell[2]>>,
       <<cell[1], cell[2] + 1>>, <<cell[1] - 1, cell[2]>> >>

\* append to cells the members of more not yet in it
RECURSIVE AppendUnseen(_, _)
AppendUnseen(cells, more) ==
    IF more = <<>> THEN cells
    ELSE IF \E k \in 1..Len(cells) : cells[k] = Head(more)
         THEN AppendUnseen(cells, Tail(more))
         ELSE AppendUnseen(Append(cells, Head(more)), Tail(more))

\* cellAndNeighbors(cell)
cellAndNeighbors(cell) ==
    LET edgeNeighbors == EdgeNeighbors(cell)
        cells == <<cell>> \o edgeNeighbors
    IN  AppendUnseen(cells,
            EdgeNeighbors(edgeNeighbors[1]) \o EdgeNeighbors(edgeNeighbors[2])
            \o EdgeNeighbors(edgeNeighbors[3]) \o EdgeNeighbors(edgeNeighbors[4]))

(***************************************************************************)
(* Geocode: the input it accepts.                                          *)
(***************************************************************************)
maxGeocodeInputLen == 256

maxFuzzyDistance == 3

\* string(runes[:maxGeocodeInputLen])
TruncateRunes(runes) == StringOfRunes(Take(runes, maxGeocodeInputLen))

\* n cut to the cap as n[:maxGeocodeInputLen], a slice of bytes
TruncateInput_bytes(n, runes) ==
    IF Len(runes) > maxGeocodeInputLen THEN Take(n, maxGeocodeInputLen) ELSE n

\* "if utf8.RuneCountInString(n) > maxGeocodeInputLen": n cut to the cap,
\* runes being []rune(n)
TruncateInput(n, runes) ==
    IF Len(runes) > maxGeocodeInputLen THEN TruncateRunes(runes) ELSE n

TruncateTrimmed(n) == TruncateInput(n, Runes(n))

\* the first lines of Geocode: trim, then cut an over-long input on a rune
\* boundary; the result is the n handed to exactMatchCity / fuzzyMatchLocation
GeocodeInput(n) == TruncateTrimmed(TrimSpace(n))

(***************************************************************************)
(* The matchers.  Arena indices are 1-based here (Go's index i is i + 1),  *)
(* and 0 stands for Go's -1, "no key yet".                                 *)
(***************************************************************************)
RECURSIVE SumSeq(_)
SumSeq(xs) == IF xs = <<>> THEN 0 ELSE Head(xs) + SumSeq(Tail(xs))

\* the arena indices filed under key in the name index
Lookup(key) ==
    IF key \in DOMAIN nameIndex
    THEN {nameIndex[key][k] : k \in 1..Len(nameIndex[key])}
    ELSE {}

\* the name slices as the loops use them: strings.TrimSuffix(ns, ",")
Slices(p) == [k \in 1..Len(p.nSlice) |-> TrimSuffix(p.nSlice[k], <<44>>)]

\* the scan of the name index for keys within the edit distance of a slice
FuzzyScan(p, dist) ==
    UNION { Lookup(key) : key \in
            { key \in DOMAIN nameIndex :
                \E k \in 1..Len(Slices(p)) :
                    Len(Slices(p)[k]) > 2 /\ fuzzyMatch(Slices(p)[k], key, dist) } }

\* candidateSet of fuzzyMatchLocation(n, opts), p being the parser's output
CandidateSet(n, p, dist) ==
    LET cleanedQuery == Join(p.nSlice, Space)
    IN  Lookup(toLower(n))
        \cup (IF cleanedQuery # n THEN Lookup(toLower(cleanedQuery)) ELSE {})
        \cup UNION {Lookup(toLower(Slices(p)[k])) : k \in 1..Len(Slices(p))}
        \cup (IF dist > 0 THEN FuzzyScan(p, dist) ELSE {})

\* the fast path of the scoring loop: the candidate is returned at once
FastPath(n, p, v) ==
    p.nSt # NoString /\ EqualFold(n, v.City) /\ EqualFold(p.nSt, Region(v))

\* what the body of the scoring loop adds to bestMatchingKeys[currentKey]
ScoreOf(n, p, dist, v) ==
    LET vCountry == Country(v)
        vRegion == Region(v)
        alts == AltNames(v)
        sl == Slices(p)
    IN  SumSeq([k \in 1..Len(p.abbrevSlice) |->
                  (IF Len(p.abbrevSlice[k]) = 2
                      /\ EqualFold(vRegion, toLower(p.abbrevSlice[k])) THEN 5 ELSE 0)
                + (IF Len(p.abbrevSlice[k]) = 2
                      /\ EqualFold(vCountry, toLower(p.abbrevSlice[k])) THEN 3 ELSE 0)])
        + (IF p.nCo # NoString /\ p.nCo = vCountry THEN 4 ELSE 0)
        + (IF p.nSt # NoString /\ p.nSt = vRegion THEN 4 ELSE 0)
        + SumSeq([k \in 1..Len(alts) |->
                  (IF EqualFold(alts[k], n) THEN 3 ELSE 0)
                + (IF alts[k] = n THEN 5 ELSE 0)])
        + (IF EqualFold(n, v.City) THEN 7
           ELSE IF dist > 0
           THEN SumSeq([k \in 1..Len(sl) |->
                   IF Len(sl[k]) > 2 /\ fuzzyMatch(sl[k], v.City, dist) THEN 5 ELSE 0])
           ELSE 0)
        + SumSeq([k \in 1..Len(sl) |->
                  (IF Contains(toLower(v.City), toLower(sl[k])) THEN 2 ELSE 0)
                + (IF EqualFold(v.City, sl[k]) THEN 1 ELSE 0)])

\* bestMatchingKeys after the loop body added add to the entry of currentKey
AddScore(table, currentKey, add) ==
    IF add > 0 THEN (currentKey :> add) @@ table ELSE table

\* the scoring loop over candidateSet, visited in the order `order` from
\* position i on: either a fast-path return or the table bestMatchingKeys
\* (a candidate that was added nothing has no entry)
RECURSIVE ScoreLoop(_, _, _, _, _, _)
ScoreLoop(n, p, dist, order, i, table) ==
    IF i > Len(order) THEN [returned |-> FALSE, city |-> ZeroCity, table |-> table]
    ELSE IF FastPath(n, p, Cities[order[i]])
    THEN [returned |-> TRUE, city |-> Cities[order[i]], table |-> table]
    ELSE ScoreLoop(n, p, dist, order, i + 1,
                   AddScore(table, order[i], ScoreOf(n, p, dist, Cities[order[i]])))

\* the loop of the highest-population bonus over bestMatchingKeys, visited in
\* the order `order` from position i on; st = [table, hp, hpk]
RECURSIVE BonusLoop(_, _, _)
BonusLoop(order, i, st) ==
    IF i > Len(order) THEN st
    ELSE LET k == order[i]
             pop == Cities[k].Population
             t1 == IF pop >= 1000 THEN [st.table EXCEPT ![k] = @ + 1] ELSE st.table
         IN  BonusLoop(order, i + 1,
                 IF pop > st.hp THEN [table |-> t1, hp |-> pop, hpk |-> k]
                 ELSE [st EXCEPT !.table = t1])

\* the block run whether or not a country was parsed
ApplyBonus_always(p, table, order) ==
    LET st == BonusLoop(order, 1, [table |-> table, hp |-> 0, hpk |-> 0])
    IN  IF st.hpk > 0 /\ Cities[st.hpk].Population > 0
        THEN [st.table EXCEPT ![st.hpk] = @ + 1]
        ELSE st.table

\* the whole "if nCo == \"\"" block: the table after it
ApplyBonus(p, table, order) ==
    IF p.nCo # NoString THEN table
    ELSE LET st == BonusLoop(order, 1, [table |-> table, hp |-> 0, hpk |-> 0])
         IN  IF st.hpk > 0 /\ Cities[st.hpk].Population > 0
             THEN [st.table EXCEPT ![st.hpk] = @ + 1]
             ELSE st.table

\* the loop without its last branch, the tie-break on the arena index
RECURSIVE SelectLoop_populationOnly(_, _, _, _)
SelectLoop_populationOnly(table, order, i, st) ==
    IF i > Len(order) THEN st.best
    ELSE SelectLoop_populationOnly(table, order, i + 1,
             IF table[order[i]] > st.m THEN [m |-> table[order[i]], best |-> order[i]]
             ELSE IF table[order[i]] = st.m /\ st.best > 0
                     /\ Cities[order[i]].Population > Cities[st.best].Population
             THEN [st EXCEPT !.best = order[i]]
             ELSE st)

\* the loop that picks the winner, bestMatchingKeys visited in the order
\* `order` from position i on; st = [m, best]
RECURSIVE SelectLoop(_, _, _, _)
SelectLoop(table, order, i, st) ==
    IF i > Len(order) THEN st.best
    ELSE LET k == order[i]
             v == table[k]
         IN  SelectLoop(table, order, i + 1,
                 IF v > st.m THEN [m |-> v, best |-> k]
                 ELSE IF v = st.m /\ st.best > 0
                 THEN IF Cities[k].Population > Cities[st.best].Population
                      THEN [st EXCEPT !.best = k]
                      ELSE IF Cities[k].Population = Cities[st.best].Population
                              /\ k < st.best
                      THEN [st EXCEPT !.best = k]
                      ELSE st
                 ELSE st)

\* bestMatchingKey starting at index 0 of the arena instead of -1
SelectWinner_fromFirst(table, order) ==
    IF Cities = <<>> THEN ZeroCity
    ELSE Cities[SelectLoop(table, order, 1, [m |-> 0, best |-> 1])]

\* the end of fuzzyMatchLocation: the winner's record, or the empty record
SelectWinner(table, order) ==
    LET bestMatchingKey == SelectLoop(table, order, 1, [m |-> 0, best |-> 0])
    IN  IF bestMatchingKey = 0 THEN ZeroCity ELSE Cities[bestMatchingKey]

\* the orders a range loop over a map with the key set S can take
Orders(S) ==
    {o \in [1..Cardinality(S) -> S] : \A i, j \in 1..Cardinality(S) : i # j => o[i] # o[j]}

\* the loop without its "c.City == \"\"" test: a city of population 0 never
\* replaces the empty record
RECURSIVE BiggestFrom_strict(_, _, _, _)
BiggestFrom_strict(cs, oks, i, c) ==
    IF i > Len(cs) THEN c
    ELSE IF oks[i] /\ cs[i].Population > c.Population
         THEN BiggestFrom_strict(cs, oks, i + 1, cs[i])
         ELSE BiggestFrom_strict(cs, oks, i + 1, c)

\* the first city of highest population among those of cs that satisfy ok:
\* what a loop "if c.City == \"\" || city.Population > c.Population" leaves in c
RECURSIVE BiggestFrom(_, _, _, _)
BiggestFrom(cs, oks, i, c) ==
    IF i > Len(cs) THEN c
    ELSE IF oks[i] /\ (c.City = <<>> \/ cs[i].Population > c.Population)
         THEN BiggestFrom(cs, oks, i + 1, cs[i])
         ELSE BiggestFrom(cs, oks, i + 1, c)

Biggest(cs, ok(_), c) == BiggestFrom(cs, [i \in 1..Len(cs) |-> ok(cs[i])], 1, c)

\* candidateSet of exactMatchCity(n)
ExactCandidateSet(n, p) ==
    LET nWithoutAbbrev == Join(p.nSlice, Space)
    IN  Lookup(toLower(n))
        \cup (IF nWithoutAbbrev # n THEN Lookup(toLower(nWithoutAbbrev)) ELSE {})

\* exactMatchCity(n), the candidate set visited in the order `order`
exactMatchCity(n, p, order) ==
    LET nWithoutAbbrev == Join(p.nSlice, Space)
        matchingCities ==
            SelectSeq([k \in 1..Len(order) |-> Cities[order[k]]],
                      LAMBDA v : EqualFold(n, v.City) \/ EqualFold(nWithoutAbbrev, v.City))
        InRegion(city) == EqualFold(p.nSt, Region(city))
        InBoth(city) == InRegion(city) /\ EqualFold(p.nCo, Country(city))
        InCountry(city) == EqualFold(p.nCo, Country(city))
        byRegion == Biggest(matchingCities, InRegion, ZeroCity)
        bestRegionAndCountry == Biggest(matchingCities, InBoth, ZeroCity)
        c == IF bestRegionAndCountry.City # <<>> THEN bestRegionAndCountry ELSE byRegion
        matchingCountryCities == SelectSeq(matchingCities, InCountry)
    IN  IF Len(matchingCities) = 1 THEN matchingCities[1]
        ELSE IF Len(matchingCities) = 0 THEN ZeroCity
        ELSE IF c.City # <<>> THEN c
        ELSE IF Len(matchingCountryCities) > 0
        THEN Biggest(Tail(matchingCountryCities), InCountry, matchingCountryCities[1])
        ELSE ZeroCity

(***************************************************************************)
(* ReverseGeocode.  Coordinates and distances are integers, in units of    *)
(* 1e-5 radian; a distance is kept as its square, which orders and         *)
(* compares as the distance does.                                          *)
(***************************************************************************)
\* ~100 km: 0.0157 radian
maxReverseGeocodeDistance == 1570

\* ~10 km: 0.00157 radian
nearbyThreshold == 157

\* queryLL.Distance(cityLL), squared
DistSq(lat, lng, city) ==
    (lat - city.Latitude) * (lat - city.Latitude)
    + (lng - city.Longitude) * (lng - city.Longitude)

Farther(distSq, limit) == distSq > limit * limit

\* the candidates in the order ReverseGeocode appends them: cell by cell,
\* each cell's posting list in order
ReverseCandidates(lat, lng) ==
    LET cells == cellAndNeighbors(CellOf(lat, lng))
        RECURSIVE Collect(_)
        Collect(i) ==
            IF i > Len(cells) THEN <<>>
            ELSE (IF cells[i] \in DOMAIN cellIndex
                  THEN [k \in 1..Len(cellIndex[cells[i]]) |->
                          [city |-> Cities[cellIndex[cells[i]][k]],
                           dist |-> DistSq(lat, lng, Cities[cellIndex[cells[i]][k]])]]
                  ELSE <<>>)
                 \o Collect(i + 1)
    IN  Collect(1)

\* a comparison by distance alone
CandidateLess_distanceOnly(a, b) == a.dist < b.dist

\* the comparison function handed to sort.SliceStable
CandidateLess(a, b) ==
    IF a.dist # b.dist THEN a.dist < b.dist
    ELSE IF a.city.Population # b.city.Population
    THEN a.city.Population > b.city.Population
    ELSE StringLess(a.city.City, b.city.City)

\* sort.SliceStable(xs, CandidateLess): insertion keeps equal elements in
\* their order
RECURSIVE SliceStable(_)
SliceStable(xs) ==
    IF xs = <<>> THEN <<>>
    ELSE LET sorted == SliceStable(Take(xs, Len(xs) - 1))
             x == xs[Len(xs)]
             before == {k \in 0..Len(sorted) :
                           \A j \in (k + 1)..Len(sorted) : CandidateLess(x, sorted[j])}
             at == CHOOSE k \in before : \A j \in before : k <= j
         IN  Take(sorted, at) \o <<x>> \o Drop(sorted, at)

\* the neighbourhood scan over candidates[1:], from position i on
RECURSIVE OverrideScan(_, _, _)
OverrideScan(cands, i, best) ==
    IF i > Len(cands) THEN best
    ELSE IF Farther(cands[i].dist, nearbyThreshold) THEN best
    ELSE IF cands[i].city.Population > best.city.Population * 10 THEN cands[i]
    ELSE OverrideScan(cands, i + 1, best)

\* the neighbourhood override: the candidate returned for the sorted list
NeighborhoodOverride(cands) ==
    IF cands[1].city.Population < 500000
    THEN OverrideScan(cands, 2, cands[1])
    ELSE cands[1]

\* the nearest city of the whole arena, at whatever distance
ReverseGeocodeResult_nearestOfAll(lat, lng) ==
    IF Cities = <<>> THEN ZeroCity
    ELSE Cities[CHOOSE i \in 1..Len(Cities) :
                    \A j \in 1..Len(Cities) :
                        DistSq(lat, lng, Cities[i]) <= DistSq(lat, lng, Cities[j])]

\* ReverseGeocode(lat, lng), for finite coordinates
ReverseGeocodeResult(lat, lng) ==
    LET candidates == SliceStable(ReverseCandidates(lat, lng))
    IN  IF Len(candidates) = 0 THEN ZeroCity
        ELSE IF Farther(candidates[1].dist, maxReverseGeocodeDistance) THEN ZeroCity
        ELSE NeighborhoodOverride(candidates).city

(***************************************************************************)
(* Spec: queries on a constructed instance.  Init is the state NewGeobed   *)
(* leaves: an arena of stored cities sorted by name, the two indices built *)
(* from it, the admin-division file not read yet.                          *)
(***************************************************************************)
\* the largest arena
MaxCities == 3

\* the largest FuzzyDistance a caller asks for
MaxFuzzyAsked == 4

FR == Str(<<"F", "R">>)

US == Str(<<"U", "S">>)

CA == Str(<<"C", "A">>)

StoredCity(name, alt, co, re, lat, lng, pop) ==
    [City |-> name, CityAlt |-> alt, Country |-> co, Region |-> re,
     Latitude |-> lat, Longitude |-> lng, Population |-> pop]

\* the stored cities an arena is drawn from
CityPool ==
    << StoredCity(Str(<<"P","o">>), <<>>, FR, <<>>, 0, 0, 5000),
       StoredCity(Str(<<"P","o">>), <<>>, US, Str(<<"T","X">>), 100, 0, 5000),
       StoredCity(Str(<<"P","o">>), <<>>, CA, Str(<<"O","N">>), 0, 150, 50000),
       StoredCity(Str(<<"O","r">>), <<>>, US, Str(<<"O","R">>), 0, 60, 500),
       StoredCity(Str(<<"O","r">>), <<>>, US, Str(<<"O","R">>), 400, 0, 600000),
       StoredCity(Str(<<"A","b","c","d">>), Str(<<"A","b",","," ","P","o">>), FR, <<>>,
                  5000, 5000, 0),
       StoredCity(Str(<<"W","x","y","z">>), <<>>, CA, Str(<<"O","N">>), 5000, 5100, 0),
       StoredCity(Str(<<"X","y">>), Str(<<"A","b">>), US, Str(<<"T","X">>), 100, 100, 700) >>

CountryInfos ==
    << [Country |-> Str(<<"F","r","a">>), ISO |-> FR],
       [Country |-> Str(<<"C","a","n">>), ISO |-> CA] >>

AdminFiles ==
    { FileOf(<< Str(<<"C","A",".","O","N","\t","O","n","t">>),
                Str(<<"U","S",".","T","X","\t","T","e","x">>) >>) }

\* the strings callers pass to Geocode
GeocodeInputs ==
    { <<>>, Str(<<" ">>), Str(<<" ","\t"," ">>),
      Str(<<"P","o">>), Str(<<" ","P","o"," ">>),
      Str(<<"P","o",","," ","T","X">>), Str(<<"P","o"," ","O","N">>),
      Str(<<"P","o",","," ","F","r","a">>),
      Str(<<"o","r">>), Str(<<"A","b","c","d">>), Str(<<"A","b"," ","C","d">>),
      Str(<<"Z","z">>) }

\* the points callers pass to ReverseGeocode
ReversePoints ==
    { <<0, 0>>, <<50, 0>>, <<0, 60>>, <<0, 75>>, <<400, 0>>, <<-160, 0>>,
      <<5000, 5050>>, <<9000, 9000>> }

GeocodeCalls ==
    { [op |-> "Geocode", n |-> n, ExactCity |-> FALSE, FuzzyDistance |-> d,
       lat |-> 0, lng |-> 0] : n \in GeocodeInputs, d \in 0..MaxFuzzyAsked }
    \cup
    { [op |-> "Geocode", n |-> n, ExactCity |-> TRUE, FuzzyDistance |-> 0,
       lat |-> 0, lng |-> 0] : n \in GeocodeInputs }

ReverseCalls ==
    { [op |-> "ReverseGeocode", n |-> <<>>, ExactCity |-> FALSE, FuzzyDistance |-> 0,
       lat |-> q[1], lng |-> q[2]] : q \in ReversePoints }

NoCall ==
    [op |-> "none", n |-> <<>>, ExactCity |-> FALSE, FuzzyDistance |-> 0,
     lat |-> 0, lng |-> 0]

\* "no record returned yet"
Pending == [ZeroCity EXCEPT !.Population = -1]

\* the stored cities of an arena: at most MaxCities of the pool, in an order
\* sort.Sort(g.Cities) can leave them in
Arenas ==
    { [k \in 1..Len(o) |-> CityPool[o[k]]] :
        o \in { o \in UNION { Orders(S) : S \in { S \in SUBSET (1..Len(CityPool)) :
                                                  Cardinality(S) <= MaxCities } } :
                IsSortedArena([k \in 1..Len(o) |-> CityPool[o[k]]]) } }

(***************************************************************************)
(* The state of construction: the files NewGeobed reads and writes, the    *)
(* package's downloadMu, and the goroutines calling NewGeobed or           *)
(* GetDefaultGeobed.                                                       *)
(***************************************************************************)
\* the goroutines that construct
NumBuilders == 2

\* the calls one goroutine makes
MaxBuildCalls == 2

Builders == 1..NumBuilders

\* a nil error
NoError == ""

\* a cache file that cannot be opened or decoded, and one holding data
Unreadable == [ok |-> FALSE, data |-> <<>>]

BlobOf(data) == [ok |-> TRUE, data |-> data]

\* &GeoBed{config: cfg}: nothing loaded; id tells one pointer from another
EmptyGeobed(id) ==
    [id |-> id, Cities |-> <<>>, Countries |-> <<>>, nameIndex |-> <<>>,
     cellIndex |-> <<>>]

\* the nil *GeoBed
NilGeobed == EmptyGeobed(0)

\* what a constructor call returns: the pointer and the error
Returned(g, err) == [g |-> g, err |-> err]

\* a goroutine that is not constructing
IdleBuilder ==
    [pc |-> "idle", via |-> "none", g |-> NilGeobed, err |-> NoError,
     downloadErr |-> NoError, path |-> "none", calls |-> 0,
     ret |-> Returned(NilGeobed, NoError)]

\* sync.Once: whether Do has run f, and how often f was started
OnceFresh == [state |-> "fresh", runs |-> 0]

\* no goroutine constructing; the files are set by the specification's Init
BuildAtRest ==
    /\ cacheFiles = [cities |-> Unreadable, countries |-> Unreadable,
                     nameIndex |-> Unreadable]
    /\ dataFiles = FALSE
    /\ downloadMu = NoGoroutine
    /\ builders = [b \in Builders |-> IdleBuilder]
    /\ defaultGeobedOnce = OnceFresh
    /\ defaultGeobed = Returned(NilGeobed, NoError)
    /\ defaultReturns = {}

\* extractLocationPieces not called yet
NoParse ==
    [pc |-> "idle", n |-> NoString,
     co |-> [nCo |-> NoString, n |-> NoString],
     st |-> [nSt |-> NoString, n |-> NoString],
     out |-> LocationPieces(NoString,
                            [nCo |-> NoString, nSt |-> NoString, n |-> NoString],
                            FALSE)]

ParseAtRest == parse = NoParse

\* no zip entry read yet
IngestAtRest == zipEntry = <<>> /\ ingestPc = "idle"

NumLoaders == 2

Loaders == 1..NumLoaders

\* a goroutine outside loadAdminDivisionsForDir: divisions is its local table,
\* line the scanner's position, got what its last call returned and via the
\* path that call took
IdleLoader ==
    [pc |-> "idle", divisions |-> <<>>, line |-> 0, calls |-> 0,
     via |-> "none", got |-> NotLoaded]

LoadAtRest ==
    /\ adminDivisionsCacheMu = Unlocked
    /\ loaders = [g \in Loaders |-> IdleLoader]
    /\ opens = 0

LaterAtRest == ParseAtRest /\ IngestAtRest /\ LoadAtRest

Init ==
    /\ \E stored \in Arenas :
        LET cInt == InternAll(newStringInterner(MaxUint16),
                              [k \in 1..Len(stored) |-> stored[k].Country])
            rInt == InternAll(newStringInterner(MaxUint16),
                              [k \in 1..Len(stored) |-> stored[k].Region])
            arena == [k \in 1..Len(stored) |-> ArenaCity(stored[k], cInt, rInt)]
        IN  /\ Cities = arena
            /\ countryInterner = cInt
            /\ regionInterner = rInt
            /\ nameIndex = BuildNameIndex(arena)
            /\ cellIndex = BuildCellIndex(arena)
    /\ Countries = CountryInfos
    /\ adminFile \in AdminFiles
    /\ adminDivisionsCache = NotLoaded
    /\ pc = "idle"
    /\ call = NoCall
    /\ scores = <<>>
    /\ result = Pending
    /\ previous = Pending
    /\ input = <<>>
    /\ handed = <<>>
    /\ InternerAtRest
    /\ AdminAtRest
    /\ LaterAtRest
    /\ BuildAtRest

\* a caller invokes Geocode or ReverseGeocode
Call ==
    /\ pc = "idle"
    /\ call' \in GeocodeCalls \cup ReverseCalls
    /\ pc' = "called"
    /\ UNCHANGED <<instanceVars, adminDivisionsCache, scores, result, previous, inputVars, internVars, buildVars, adminVars, laterVars>>

\* options.FuzzyDistance used as it comes
CapFuzzyDistance_uncapped(d) == d

\* options.FuzzyDistance after the cap
CapFuzzyDistance(d) == IF d > maxFuzzyDistance THEN maxFuzzyDistance ELSE d

\* how Geocode leaves the scoring loop: returned by the fast path, or on to
\* the bonus with the table r.table
AfterScoreLoop(r, cache) ==
    IF r.returned
    THEN [pc |-> "done", result |-> r.city, scores |-> <<>>, cache |-> cache]
    ELSE [pc |-> "scored", result |-> Pending, scores |-> r.table, cache |-> cache]

\* exactMatchCity(n) or the scoring loop of fuzzyMatchLocation(n, opts), p
\* being the parser's output and cache the admin-division cache it left
MatcherOutcomes(n, p, exact, dist, cache) ==
    IF exact
    THEN { [pc |-> "done", result |-> exactMatchCity(n, p, order), scores |-> <<>>,
            cache |-> cache] : order \in Orders(ExactCandidateSet(n, p)) }
    ELSE { AfterScoreLoop(ScoreLoop(n, p, dist, order, 1, <<>>), cache) :
             order \in Orders(CandidateSet(n, p, dist)) }

\* the admin-division cache after the parser ran
CacheAfter(p) ==
    IF p.adminLookup THEN Loaded(loadAdminDivisionsForDir) ELSE adminDivisionsCache

ParsedOutcomes(n, p, exact, dist) == MatcherOutcomes(n, p, exact, dist, CacheAfter(p))

\* the first city of the arena for an empty n
GeocodeOutcomes_firstCity(n, exact, dist) ==
    IF n = <<>>
    THEN { [pc |-> "done", result |-> IF Cities = <<>> THEN ZeroCity ELSE Cities[1],
            scores |-> <<>>, cache |-> adminDivisionsCache] }
    ELSE ParsedOutcomes(n, extractLocationPieces(n), exact, dist)

\* Geocode on the trimmed and cut input n
GeocodeOutcomes(n, exact, dist) ==
    IF n = <<>>
    THEN { [pc |-> "done", result |-> ZeroCity, scores |-> <<>>,
            cache |-> adminDivisionsCache] }
    ELSE ParsedOutcomes(n, extractLocationPieces(n), exact, dist)

\* Geocode, from its entry to the end of the scoring loop (scored mode) or to
\* its return (empty input, exact mode, fast path)
GeocodeStart ==
    /\ pc = "called"
    /\ call.op = "Geocode"
    /\ \E out \in GeocodeOutcomes(GeocodeInput(call.n), call.ExactCity,
                                  CapFuzzyDistance(call.FuzzyDistance)) :
        /\ pc' = out.pc
        /\ result' = out.result
        /\ scores' = out.scores
        /\ adminDivisionsCache' = out.cache
    /\ UNCHANGED <<instanceVars, call, previous, inputVars, internVars, buildVars, adminVars, laterVars>>

\* the parser output of the Geocode call in progress
CallPieces == extractLocationPieces(GeocodeInput(call.n))

\* Geocode, scored mode: the highest-population bonus
GeocodeBonus ==
    /\ pc = "scored"
    /\ \E order \in Orders(DOMAIN scores) :
        scores' = ApplyBonus(CallPieces, scores, order)
    /\ pc' = "bonused"
    /\ UNCHANGED <<instanceVars, adminDivisionsCache, call, result, previous, inputVars, internVars, buildVars, adminVars, laterVars>>

\* Geocode, scored mode: the choice of the winner and the return
GeocodeSelect ==
    /\ pc = "bonused"
    /\ \E order \in Orders(DOMAIN scores) :
        result' = SelectWinner(scores, order)
    /\ pc' = "done"
    /\ UNCHANGED <<instanceVars, adminDivisionsCache, call, scores, previous, inputVars, internVars, buildVars, adminVars, laterVars>>

\* ReverseGeocode(lat, lng)
ReverseGeocode ==
    /\ pc = "called"
    /\ call.op = "ReverseGeocode"
    /\ result' = ReverseGeocodeResult(call.lat, call.lng)
    /\ pc' = "done"
    /\ UNCHANGED <<instanceVars, adminDivisionsCache, call, scores, previous, inputVars, internVars, buildVars, adminVars, laterVars>>

\* the caller repeats the query it just made
Again ==
    /\ pc = "done"
    /\ previous' = result
    /\ result' = Pending
    /\ scores' = <<>>
    /\ pc' = "called"
    /\ UNCHANGED <<instanceVars, adminDivisionsCache, call, inputVars, internVars, buildVars, adminVars, laterVars>>

\* the caller turns to another query
Return ==
    /\ pc = "done"
    /\ pc' = "idle"
    /\ call' = NoCall
    /\ result' = Pending
    /\ previous' = Pending
    /\ scores' = <<>>
    /\ UNCHANGED <<instanceVars, adminDivisionsCache, inputVars, internVars, buildVars, adminVars, laterVars>>

Next ==
    \/ Call
    \/ GeocodeStart
    \/ GeocodeBonus
    \/ GeocodeSelect
    \/ ReverseGeocode
    \/ Again
    \/ Return

Spec == Init /\ [][Next]_vars

(***************************************************************************)
(* Properties of Geocode and ReverseGeocode, checked under Spec.            *)
(***************************************************************************)
\* the Geocode call in progress: its n, its capped distance, its mode
CallN == GeocodeInput(call.n)

CallDistance == CapFuzzyDistance(call.FuzzyDistance)

ScoredCall == call.op = "Geocode" /\ ~call.ExactCity

\* the records a scored Geocode of n with edit distance dist can return, over
\* every order its three loops can visit their maps in
ScoredResults(n, dist) ==
    UNION { IF out.pc = "done" THEN {out.result}
            ELSE { SelectWinner(ApplyBonus(extractLocationPieces(n), out.scores, o2), o3) :
                     o2 \in Orders(DOMAIN out.scores), o3 \in Orders(DOMAIN out.scores) } :
            out \in GeocodeOutcomes(n, FALSE, dist) }

\* the candidates of the ReverseGeocode call in progress, sorted
CallCandidates == SliceStable(ReverseCandidates(call.lat, call.lng))

\* C1: scored Geocode is deterministic: a repeated call on the same instance,
\* with the same query and options, returns the record the call before it
\* returned, whatever order the maps are visited in.
C1_ScoredGeocodeDeterministic ==
    (pc = "done" /\ ScoredCall /\ previous # Pending) => result = previous

\* C2: in scored mode, when the candidate set is empty or no candidate accrues
\* a positive score, Geocode returns the empty record.
C2_NoScoreEmptyRecord ==
    (pc = "done" /\ ScoredCall /\ CallN # <<>>
       /\ \A k \in CandidateSet(CallN, CallPieces, CallDistance) :
              ScoreOf(CallN, CallPieces, CallDistance, Cities[k]) = 0)
    => result = ZeroCity

\* a scored call returned while its candidate set held a city of the arena
\* that no rule gave a point
C2_UnscoredCandidates ==
    /\ pc = "done" /\ ScoredCall /\ CallN # <<>>
    /\ CandidateSet(CallN, CallPieces, CallDistance) # {}
    /\ \A k \in CandidateSet(CallN, CallPieces, CallDistance) :
           ScoreOf(CallN, CallPieces, CallDistance, Cities[k]) = 0
    /\ result = ZeroCity

\* C3: absent the neighbourhood override, ReverseGeocode returns a candidate
\* that no candidate precedes in the order (distance ascending, population
\* descending, name ascending), and a repeated call returns the same record.
C3_ReverseOrder ==
    (pc = "done" /\ call.op = "ReverseGeocode") =>
        /\ (/\ CallCandidates # <<>>
            /\ ~Farther(CallCandidates[1].dist, maxReverseGeocodeDistance)
            /\ NeighborhoodOverride(CallCandidates) = CallCandidates[1])
           => \E k \in 1..Len(CallCandidates) :
                /\ result = CallCandidates[k].city
                /\ \A j \in 1..Len(CallCandidates) :
                     LET a == CallCandidates[j]
                         b == CallCandidates[k]
                     IN  ~ \/ a.dist < b.dist
                           \/ /\ a.dist = b.dist
                              /\ a.city.Population > b.city.Population
                           \/ /\ a.dist = b.dist
                              /\ a.city.Population = b.city.Population
                              /\ StringLess(a.city.City, b.city.City)
        /\ previous # Pending => result = previous

\* a repeated ReverseGeocode returned the more populous of two candidates at
\* the same distance
C3_EqualDistance ==
    /\ pc = "done" /\ call.op = "ReverseGeocode" /\ previous # Pending
    /\ Len(CallCandidates) >= 2
    /\ CallCandidates[1].dist = CallCandidates[2].dist
    /\ CallCandidates[1].city.Population > CallCandidates[2].city.Population
    /\ result = CallCandidates[1].city

\* C4: a non-empty record returned by ReverseGeocode is a city of the arena
\* within maxReverseGeocodeDistance of the query point, also after the
\* override; with no candidate, or the nearest farther away, the record is
\* empty.
C4_ReverseWithinCutoff ==
    (pc = "done" /\ call.op = "ReverseGeocode") =>
        /\ result # ZeroCity =>
             \E i \in 1..Len(Cities) :
                /\ Cities[i] = result
                /\ ~Farther(DistSq(call.lat, call.lng, Cities[i]),
                            maxReverseGeocodeDistance)
        /\ (\A k \in 1..Len(ReverseCandidates(call.lat, call.lng)) :
               Farther(ReverseCandidates(call.lat, call.lng)[k].dist,
                       maxReverseGeocodeDistance))
           => result = ZeroCity

\* ReverseGeocode returned a city the override put in the place of the nearest
C4_AfterOverride ==
    /\ pc = "done" /\ call.op = "ReverseGeocode"
    /\ result # ZeroCity
    /\ CallCandidates # <<>>
    /\ result # CallCandidates[1].city

\* C5: when the nearest candidate has a population below 500 000, the first
\* candidate in sorted order, within the ~10 km radius, whose population is at
\* least 10 times the nearest one's replaces it; otherwise the nearest
\* candidate is returned.
C5_OverrideAtLeastTenTimes ==
    (/\ pc = "done" /\ call.op = "ReverseGeocode"
     /\ CallCandidates # <<>>
     /\ ~Farther(CallCandidates[1].dist, maxReverseGeocodeDistance)) =>
        LET c == CallCandidates
            hits == {k \in 2..Len(c) :
                        /\ \A j \in 2..k : ~Farther(c[j].dist, nearbyThreshold)
                        /\ c[k].city.Population >= 10 * c[1].city.Population}
        IN  result = IF c[1].city.Population < 500000 /\ hits # {}
                     THEN c[CHOOSE k \in hits : \A j \in hits : k <= j].city
                     ELSE c[1].city

\* C6: Geocode of an empty or whitespace-only input returns the empty record,
\* in scored and in exact mode.
C6_EmptyInputEmptyRecord ==
    (pc = "done" /\ call.op = "Geocode" /\ TrimSpace(call.n) = <<>>) => result = ZeroCity

\* an exact-mode call with a whitespace-only input returned on a non-empty arena
C6_WhitespaceExact ==
    /\ pc = "done" /\ call.op = "Geocode" /\ call.ExactCity
    /\ call.n # <<>> /\ TrimSpace(call.n) = <<>>
    /\ Cities # <<>>
    /\ result = ZeroCity

\* C8: the edit distance the matcher uses never exceeds maxFuzzyDistance: with
\* a larger FuzzyDistance asked for, the score table and the record returned
\* are such as Geocode with FuzzyDistance = maxFuzzyDistance produces.
C8_FuzzyDistanceCapped ==
    (ScoredCall /\ call.FuzzyDistance > maxFuzzyDistance) =>
        /\ pc = "scored" =>
             \E out \in GeocodeOutcomes(CallN, FALSE, maxFuzzyDistance) :
                out.pc = "scored" /\ out.scores = scores
        /\ pc = "done" => result \in ScoredResults(CallN, maxFuzzyDistance)

\* a call asking for more than maxFuzzyDistance returned the empty record
\* though a name of the arena is at exactly the distance asked for
C8_BeyondTheCap ==
    /\ pc = "done" /\ ScoredCall /\ call.FuzzyDistance > maxFuzzyDistance
    /\ result = ZeroCity
    /\ \E i \in 1..Len(Cities) :
          /\ Len(CallN) > 2
          /\ ComputeDistance(toLower(CallN), toLower(Cities[i].City)) = call.FuzzyDistance

(***************************************************************************)
(* SpecInput: Geocode's treatment of its input string, on inputs around    *)
(* the rune cap: white space, then a first rune, then one unit repeated.   *)
(***************************************************************************)
\* how many runes beyond maxGeocodeInputLen an input may have
MaxOver == 2

\* how many white-space runes an input may start or end with
MaxPad == 1

\* one encoded rune each, except the ill-formed ones: "a", " ", e-acute (2 bytes),
\* a CJK rune (3 bytes), an emoji (4 bytes), a lone byte 0xFF, a lone lead byte
Units == {<<97>>, <<32>>, <<195, 169>>, <<229, 140, 151>>, <<240, 159, 140, 141>>,
          <<255>>, <<195>>}

Pads == {<<32>>, <<9>>, <<194, 160>>}

Counts == (0..2) \cup ((maxGeocodeInputLen - 2)..(maxGeocodeInputLen + MaxOver))

InputStrings ==
    { Repeat(lp, l) \o first \o Repeat(u, k) \o Repeat(tp, t) :
        lp \in Pads, l \in 0..MaxPad, first \in {<<>>, <<84>>, <<255>>},
        u \in Units, k \in Counts, tp \in Pads, t \in 0..MaxPad }

NotCalled == <<-1>>

InitInput ==
    /\ input \in InputStrings
    /\ handed = NotCalled
    /\ Cities = <<>>
    /\ Countries = <<>>
    /\ nameIndex = <<>>
    /\ cellIndex = <<>>
    /\ countryInterner = newStringInterner(MaxUint16)
    /\ regionInterner = newStringInterner(MaxUint16)
    /\ adminFile = Missing
    /\ adminDivisionsCache = NotLoaded
    /\ pc = "idle"
    /\ call = NoCall
    /\ scores = <<>>
    /\ result = Pending
    /\ previous = Pending
    /\ InternerAtRest
    /\ AdminAtRest
    /\ LaterAtRest
    /\ BuildAtRest

\* Geocode(input) up to the call of the matcher
GeocodeEntry ==
    /\ handed = NotCalled
    /\ handed' = GeocodeInput(input)
    /\ UNCHANGED <<input, instanceVars, queryVars, internVars, buildVars, adminVars, laterVars>>

NextInput == GeocodeEntry

SpecInput == InitInput /\ [][NextInput]_vars

\* C7 as stated: the string handed on has at most maxGeocodeInputLen runes and
\* is a prefix, ending on a rune boundary, of the trimmed input; an input of
\* at most maxGeocodeInputLen runes is handed on as trimmed.
C7_HandedIsPrefix ==
    handed # NotCalled =>
        /\ Len(Runes(handed)) <= maxGeocodeInputLen
        /\ IsPrefix(handed, TrimSpace(input))
        /\ \/ Len(handed) = Len(TrimSpace(input))
           \/ \E j \in 1..Len(Decoded(TrimSpace(input))) :
                 Decoded(TrimSpace(input))[j].at = Len(handed) + 1
        /\ Len(Runes(TrimSpace(input))) <= maxGeocodeInputLen => handed = TrimSpace(input)

\* what C7, amended, asks of the string h handed on, t being the trimmed
\* input; Dh and Dt are the two strings decoded
C7_RuneTruncation(h, t, Dh, Dt) ==
    /\ Len(Dh) <= maxGeocodeInputLen
    /\ Len(Dt) <= maxGeocodeInputLen => h = t
    /\ Len(Dt) > maxGeocodeInputLen =>
         /\ RunesOf(Dh) = Take(RunesOf(Dt), maxGeocodeInputLen)
         /\ ValidDecoded(Dh)
    /\ ValidDecoded(Dt) => IsPrefix(h, t)

\* C7, amended: the string handed on is the trimmed input when that has at
\* most maxGeocodeInputLen runes, and otherwise the UTF-8 encoding of its first
\* maxGeocodeInputLen runes, each ill-formed byte read as U+FFFD; for a
\* well-formed trimmed input that is a prefix of it.
C7_HandedIsRuneTruncation ==
    handed # NotCalled =>
        C7_RuneTruncation(handed, TrimSpace(input), Decoded(handed),
                          Decoded(TrimSpace(input)))

\* an over-long input with an ill-formed byte was handed on, and not as a
\* prefix of the trimmed input
C7_IllFormedOverLong ==
    /\ handed # NotCalled
    /\ Len(Runes(TrimSpace(input))) > maxGeocodeInputLen
    /\ ~ValidString(TrimSpace(input))
    /\ ~IsPrefix(handed, TrimSpace(input))

(***************************************************************************)
(* SpecIntern: goroutines calling intern, get and count on one shared      *)
(* interner, each call a sequence of steps between its lock operations.    *)
(* The handle type is scaled down to the values 0..MaxHandle.              *)
(***************************************************************************)
\* the strings goroutines intern: one more non-empty string than T has handles
InternKeys == {NoString} \cup {<<ByteOf(UpperLetters[k])>> : k \in 1..(MaxHandle + 1)}

\* the handles goroutines pass to get: those of T
Handles == 0..MaxHandle

InitIntern ==
    /\ InternerAtRest
    /\ AdminAtRest
    /\ LaterAtRest
    /\ BuildAtRest
    /\ Cities = <<>>
    /\ Countries = <<>>
    /\ nameIndex = <<>>
    /\ cellIndex = <<>>
    /\ countryInterner = newStringInterner(MaxUint16)
    /\ regionInterner = newStringInterner(MaxUint16)
    /\ adminFile = Missing
    /\ adminDivisionsCache = NotLoaded
    /\ pc = "idle"
    /\ call = NoCall
    /\ scores = <<>>
    /\ result = Pending
    /\ previous = Pending
    /\ input = <<>>
    /\ handed = <<>>

\* a panic nobody recovers ends the process
Running == \A g \in Goroutines : goroutines[g].pc # "panicked"

\* the handle intern returned for s before now, if it returned one
ReturnedFor(s) == {p[2] : p \in {q \in returned : q[1] = s}}

\* the string intern was given when it returned h before now
ReturnedAs(h) == {p[1] : p \in {q \in returned : q[2] = h}}

OtherVars == <<instanceVars, queryVars, inputVars, buildVars, adminVars, laterVars>>

\* a goroutine calls si.intern(s)
InternCall(g) ==
    /\ Running
    /\ goroutines[g].pc = "idle"
    /\ \E s \in InternKeys :
        goroutines' = [goroutines EXCEPT ![g] =
            [Idle EXCEPT !.pc = "RLock", !.op = "intern", !.s = s,
                         !.known = ReturnedFor(s) # {},
                         !.h = IF ReturnedFor(s) # {}
                               THEN CHOOSE h \in ReturnedFor(s) : TRUE ELSE 0]]
    /\ UNCHANGED <<si, mu, returned, OtherVars>>

\* a goroutine calls si.get(idx)
GetCall(g) ==
    /\ Running
    /\ goroutines[g].pc = "idle"
    /\ \E h \in Handles :
        goroutines' = [goroutines EXCEPT ![g] =
            [Idle EXCEPT !.pc = "RLock", !.op = "get", !.h = h,
                         !.known = ReturnedAs(h) # {},
                         !.s = IF ReturnedAs(h) # {}
                               THEN CHOOSE s \in ReturnedAs(h) : TRUE ELSE NoString]]
    /\ UNCHANGED <<si, mu, returned, OtherVars>>

\* a goroutine passes the handle intern just gave it to si.get
GetOfIntern(g) ==
    /\ Running
    /\ goroutines[g].pc = "done"
    /\ goroutines[g].op = "intern"
    /\ goroutines' = [goroutines EXCEPT ![g] =
            [Idle EXCEPT !.pc = "RLock", !.op = "get", !.h = goroutines[g].idx,
                         !.known = TRUE, !.chained = TRUE, !.s = goroutines[g].s,
                         !.path = goroutines[g].path]]
    /\ returned' = returned \cup {<<goroutines[g].s, goroutines[g].idx>>}
    /\ UNCHANGED <<si, mu, OtherVars>>

\* a goroutine calls si.count()
CountCall(g) ==
    /\ Running
    /\ goroutines[g].pc = "idle"
    /\ goroutines' = [goroutines EXCEPT ![g] = [Idle EXCEPT !.pc = "RLock", !.op = "count"]]
    /\ UNCHANGED <<si, mu, returned, OtherVars>>

\* si.mu.RLock() returns
AcquireRead(g) ==
    /\ Running
    /\ goroutines[g].pc = "RLock"
    /\ CanRLock(mu)
    /\ mu' = RLock(mu, g)
    /\ goroutines' = [goroutines EXCEPT ![g].pc = "reading"]
    /\ UNCHANGED <<si, returned, OtherVars>>

\* intern, fast path: the string is in the index
InternFastHit(g) ==
    /\ Running
    /\ goroutines[g].pc = "reading"
    /\ goroutines[g].op = "intern"
    /\ IndexHit(si, goroutines[g].s)
    /\ mu' = RUnlock(mu, g)
    /\ goroutines' = [goroutines EXCEPT ![g].pc = "done",
                                        ![g].idx = si.index[goroutines[g].s],
                                        ![g].path = "fast"]
    /\ UNCHANGED <<si, returned, OtherVars>>

\* intern, fast path: the string is not in the index
InternFastMiss(g) ==
    /\ Running
    /\ goroutines[g].pc = "reading"
    /\ goroutines[g].op = "intern"
    /\ ~IndexHit(si, goroutines[g].s)
    /\ mu' = RUnlock(mu, g)
    /\ goroutines' = [goroutines EXCEPT ![g].pc = "Lock"]
    /\ UNCHANGED <<si, returned, OtherVars>>

\* si.mu.Lock() returns
AcquireWrite(g) ==
    /\ Running
    /\ goroutines[g].pc = "Lock"
    /\ CanLock(mu)
    /\ mu' = Lock(mu, g)
    /\ goroutines' = [goroutines EXCEPT ![g].pc = "locked"]
    /\ UNCHANGED <<si, returned, OtherVars>>

\* intern, slow path: another goroutine has added the string meanwhile
InternRecheckHit(g) ==
    /\ Running
    /\ goroutines[g].pc = "locked"
    /\ Recheck(si, goroutines[g].s)
    /\ mu' = Unlock(mu, g)
    /\ goroutines' = [goroutines EXCEPT ![g].pc = "done",
                                        ![g].idx = si.index[goroutines[g].s],
                                        ![g].path = "recheck"]
    /\ UNCHANGED <<si, returned, OtherVars>>

\* intern, slow path: no handle is left; the panic runs the deferred Unlock
InternOverflow(g) ==
    /\ Running
    /\ goroutines[g].pc = "locked"
    /\ ~Recheck(si, goroutines[g].s)
    /\ CapacityExceeded(si)
    /\ mu' = Unlock(mu, g)
    /\ goroutines' = [goroutines EXCEPT ![g].pc = "panicked"]
    /\ UNCHANGED <<si, returned, OtherVars>>

\* intern, slow path: idx := T(len(si.lookup)); si.lookup = append(si.lookup, s)
InternAppend(g) ==
    /\ Running
    /\ goroutines[g].pc = "locked"
    /\ ~Recheck(si, goroutines[g].s)
    /\ ~CapacityExceeded(si)
    /\ si' = AppendLookup(si, goroutines[g].s)
    /\ goroutines' = [goroutines EXCEPT ![g].pc = "appended",
                                        ![g].idx = HandleOf(si, Len(si.lookup))]
    /\ UNCHANGED <<mu, returned, OtherVars>>

\* intern, slow path: si.index[s] = idx; return idx, with the deferred Unlock
InternIndex(g) ==
    /\ Running
    /\ goroutines[g].pc = "appended"
    /\ si' = SetIndex(si, goroutines[g].s, goroutines[g].idx)
    /\ mu' = Unlock(mu, g)
    /\ goroutines' = [goroutines EXCEPT ![g].pc = "done", ![g].path = "append"]
    /\ UNCHANGED <<returned, OtherVars>>

\* get: the read under the read lock, and the deferred RUnlock
GetRead(g) ==
    /\ Running
    /\ goroutines[g].pc = "reading"
    /\ goroutines[g].op = "get"
    /\ mu' = RUnlock(mu, g)
    /\ goroutines' = [goroutines EXCEPT ![g].pc = "done",
                                        ![g].got = InternerGet(si, goroutines[g].h)]
    /\ UNCHANGED <<si, returned, OtherVars>>

\* count: the read under the read lock, and the deferred RUnlock
CountRead(g) ==
    /\ Running
    /\ goroutines[g].pc = "reading"
    /\ goroutines[g].op = "count"
    /\ mu' = RUnlock(mu, g)
    /\ goroutines' = [goroutines EXCEPT ![g].pc = "done", ![g].n = InternerCount(si)]
    /\ UNCHANGED <<si, returned, OtherVars>>

\* the caller has the value of its call
Finish(g) ==
    /\ Running
    /\ goroutines[g].pc = "done"
    /\ goroutines' = [goroutines EXCEPT ![g] = Idle]
    /\ returned' = IF goroutines[g].op = "intern"
                   THEN returned \cup {<<goroutines[g].s, goroutines[g].idx>>}
                   ELSE returned
    /\ UNCHANGED <<si, mu, OtherVars>>

NextIntern ==
    \E g \in Goroutines :
        \/ InternCall(g)
        \/ GetCall(g)
        \/ GetOfIntern(g)
        \/ CountCall(g)
        \/ AcquireRead(g)
        \/ InternFastHit(g)
        \/ InternFastMiss(g)
        \/ AcquireWrite(g)
        \/ InternRecheckHit(g)
        \/ InternOverflow(g)
        \/ InternAppend(g)
        \/ InternIndex(g)
        \/ GetRead(g)
        \/ CountRead(g)
        \/ Finish(g)

SpecIntern == InitIntern /\ [][NextIntern]_vars

(***************************************************************************)
(* Properties of the interner, checked under SpecIntern.                   *)
(***************************************************************************)
\* the <<string, handle>> pairs intern has returned, the calls whose caller
\* has not gone on yet included
Handed ==
    returned \cup {<<goroutines[g].s, goroutines[g].idx>> :
                     g \in {o \in Goroutines : /\ goroutines[o].pc = "done"
                                               /\ goroutines[o].op = "intern"}}

\* the non-empty strings intern has returned a handle for
InternedStrings == {p[1] : p \in Handed} \ {NoString}

AllFinished == \A g \in Goroutines : goroutines[g].pc = "idle"

\* C9: under every interleaving of the goroutines' calls, get of the handle
\* intern(k) just returned gives k, no two distinct strings have got the same
\* handle, and with every call finished the count is the number of distinct
\* non-empty strings interned plus one, the reserved empty string.
C9_ConcurrentIntern ==
    /\ \A g \in Goroutines :
         (/\ goroutines[g].pc = "done"
          /\ goroutines[g].op = "get"
          /\ goroutines[g].chained) => goroutines[g].got = goroutines[g].s
    /\ \A p \in Handed, q \in Handed : p[2] = q[2] => p[1] = q[1]
    /\ AllFinished => InternerCount(si) = Cardinality(InternedStrings) + 1

\* a goroutine that missed its string on the fast path and found it under the
\* write lock, another goroutine having added it meanwhile, got the string
\* back from get
C9_RaceLost ==
    \E g \in Goroutines :
        /\ goroutines[g].pc = "done"
        /\ goroutines[g].op = "get"
        /\ goroutines[g].chained
        /\ goroutines[g].path = "recheck"
        /\ goroutines[g].s # NoString
        /\ goroutines[g].got = goroutines[g].s

\* C10: handles are stable.  In every state the empty string has handle 0 and
\* handle 0 is the empty string; no non-empty string has got handle 0; a call
\* of intern(s) made after intern(s) returned h returns h, and a call of get(h)
\* made after it returns s; get of a handle no string has returns the empty
\* string.
C10_StableHandles ==
    /\ IndexHit(si, NoString) /\ si.index[NoString] = 0
    /\ InternerGet(si, 0) = NoString
    /\ \A p \in Handed : (p[1] = NoString) <=> (p[2] = 0)
    /\ \A g \in Goroutines :
         goroutines[g].pc = "done" =>
            /\ (goroutines[g].op = "intern" /\ goroutines[g].known)
                  => goroutines[g].idx = goroutines[g].h
            /\ (goroutines[g].op = "get" /\ goroutines[g].known)
                  => goroutines[g].got = goroutines[g].s
            /\ (goroutines[g].op = "get" /\ goroutines[g].h >= InternerCount(si))
                  => goroutines[g].got = NoString

\* intern(s) returned for a second time the handle it returned before, other
\* strings having been given handles after s
C10_SameHandleLater ==
    \E g \in Goroutines :
        /\ goroutines[g].pc = "done"
        /\ goroutines[g].op = "intern"
        /\ goroutines[g].known
        /\ goroutines[g].s # NoString
        /\ goroutines[g].idx = goroutines[g].h
        /\ InternerCount(si) > goroutines[g].idx + 1

\* C11: overflow is a hard failure.  The interner never holds more than
\* MaxHandle non-empty strings and every handle given is one of 0..MaxHandle; a
\* call panics only with the table full (count MaxHandle + 1) and a string
\* that has no handle, and leaves the string without one and every pair
\* returned before as it was; a call made for a string that had its handle
\* returns it and does not panic.
C11_OverflowIsHard ==
    /\ InternerCount(si) <= MaxHandle + 1
    /\ \A p \in Handed : p[2] \in 0..MaxHandle
    /\ \A p \in Handed : IndexHit(si, p[1]) /\ si.index[p[1]] = p[2]
                         /\ InternerGet(si, p[2]) = p[1]
    /\ \A g \in Goroutines :
         goroutines[g].pc = "panicked" =>
            /\ InternerCount(si) = MaxHandle + 1
            /\ Cardinality(DOMAIN si.index) = MaxHandle + 1
            /\ ~goroutines[g].known
            /\ ~IndexHit(si, goroutines[g].s)
            /\ \A k \in 1..Len(si.lookup) : si.lookup[k] # goroutines[g].s

\* with MaxHandle distinct non-empty strings interned under the handles
\* 1..MaxHandle, a call for one more string has panicked
C11_PanicWhenFull ==
    /\ \E g \in Goroutines : goroutines[g].pc = "panicked"
    /\ {p[2] : p \in {q \in Handed : q[1] # NoString}} = 1..MaxHandle
    /\ InternerCount(si) = MaxHandle + 1

(***************************************************************************)
(* SpecBuild: goroutines construct instances, by NewGeobed or through      *)
(* GetDefaultGeobed, over one cache directory and one data directory.      *)
(***************************************************************************)
\* the cities and countries the raw files hold, in file order
RawCities == << CityPool[8], CityPool[2], CityPool[6], CityPool[1] >>

RawCountries == CountryInfos

\* the raw files of an earlier release, from which an old cache was made
OldRawCities == << CityPool[4], CityPool[1] >>

\* insertion sort, which sort.Sort runs on a slice this short: a city moves
\* left past the cities it is less than
RECURSIVE InsertCity(_, _)
InsertCity(sorted, c) ==
    IF sorted = <<>> \/ ~CitiesLess(c, sorted[Len(sorted)]) THEN Append(sorted, c)
    ELSE Append(InsertCity(Take(sorted, Len(sorted) - 1), c), sorted[Len(sorted)])

RECURSIVE SortCitiesFrom(_, _)
SortCitiesFrom(sorted, rest) ==
    IF rest = <<>> THEN sorted
    ELSE SortCitiesFrom(InsertCity(sorted, Head(rest)), Tail(rest))

\* sort.Sort(g.Cities)
SortCities(cs) == SortCitiesFrom(<<>>, cs)

CountryCodes(gcs) == [k \in 1..Len(gcs) |-> gcs[k].Country]

RegionCodes(gcs) == [k \in 1..Len(gcs) |-> gcs[k].Region]

\* the arena records of the stored cities gcs, the codes already interned
ArenaOf(gcs, cInt, rInt) == [k \in 1..Len(gcs) |-> ArenaCity(gcs[k], cInt, rInt)]

\* store's geobedCityGob of an arena record: the handles resolved to codes
GobCity(c, cInt, rInt) ==
    [City |-> c.City, CityAlt |-> c.CityAlt,
     Country |-> InternerGet(cInt, c.country), Region |-> InternerGet(rInt, c.region),
     Latitude |-> c.Latitude, Longitude |-> c.Longitude, Population |-> c.Population]

GobCities(cs, cInt, rInt) == [k \in 1..Len(cs) |-> GobCity(cs[k], cInt, rInt)]

\* the three blobs store writes for the raw cities raw
CacheImage(raw) ==
    [cities |-> SortCities(raw), countries |-> RawCountries,
     nameIndex |-> BuildNameIndex(SortCities(raw))]

\* the caches a constructor can find: of this release, of an earlier one, or
\* one whose city blob decodes to no city
CacheImages == { CacheImage(RawCities), CacheImage(OldRawCities), CacheImage(<<>>) }

CacheBlobs == {"cities", "countries", "nameIndex"}

InitBuild ==
    /\ Cities = <<>>
    /\ Countries = <<>>
    /\ nameIndex = <<>>
    /\ cellIndex = <<>>
    /\ countryInterner = newStringInterner(MaxUint16)
    /\ regionInterner = newStringInterner(MaxUint16)
    /\ adminFile = Missing
    /\ adminDivisionsCache = NotLoaded
    /\ pc = "idle"
    /\ call = NoCall
    /\ scores = <<>>
    /\ result = Pending
    /\ previous = Pending
    /\ input = <<>>
    /\ handed = <<>>
    /\ InternerAtRest
    /\ AdminAtRest
    /\ LaterAtRest
    /\ \E image \in CacheImages, readable \in SUBSET CacheBlobs :
          cacheFiles = [cities |-> IF "cities" \in readable
                                   THEN BlobOf(image.cities) ELSE Unreadable,
                        countries |-> IF "countries" \in readable
                                      THEN BlobOf(image.countries) ELSE Unreadable,
                        nameIndex |-> IF "nameIndex" \in readable
                                      THEN BlobOf(image.nameIndex) ELSE Unreadable]
    /\ dataFiles \in BOOLEAN
    /\ downloadMu = NoGoroutine
    /\ builders = [b \in Builders |-> IdleBuilder]
    /\ defaultGeobedOnce = OnceFresh
    /\ defaultGeobed = Returned(NilGeobed, NoError)
    /\ defaultReturns = {}

\* what a constructing goroutine leaves alone
BuildOtherVars ==
    <<Cities, Countries, nameIndex, cellIndex, adminFile, queryVars, inputVars,
      internVars, adminVars, laterVars>>

\* the pointer the n-th call of goroutine b allocates
InstanceId(b, n) == (b - 1) * MaxBuildCalls + n

\* NewGeobed's first lines: g := &GeoBed{config: cfg}, err still nil
NewGeobedEntry(r, id) ==
    [r EXCEPT !.pc = "loadCities", !.g = EmptyGeobed(id), !.err = NoError,
              !.downloadErr = NoError, !.path = "none"]

\* a goroutine calls NewGeobed()
NewGeobedCall(b) ==
    /\ builders[b].pc = "idle"
    /\ builders[b].calls < MaxBuildCalls
    /\ builders' = [builders EXCEPT ![b] =
          NewGeobedEntry([@ EXCEPT !.via = "NewGeobed", !.calls = @ + 1],
                         InstanceId(b, builders[b].calls + 1))]
    /\ UNCHANGED <<countryInterner, regionInterner, cacheFiles, dataFiles, downloadMu,
                   defaultGeobedOnce, defaultGeobed, defaultReturns, BuildOtherVars>>

\* a goroutine calls GetDefaultGeobed()
GetDefaultGeobedCall(b) ==
    /\ builders[b].pc = "idle"
    /\ builders[b].calls < MaxBuildCalls
    /\ builders' = [builders EXCEPT ![b] =
          [@ EXCEPT !.pc = "onceDo", !.via = "GetDefaultGeobed", !.calls = @ + 1,
                    !.g = NilGeobed, !.err = NoError, !.downloadErr = NoError,
                    !.path = "none"]]
    /\ UNCHANGED <<countryInterner, regionInterner, cacheFiles, dataFiles, downloadMu,
                   defaultGeobedOnce, defaultGeobed, defaultReturns, BuildOtherVars>>

\* sync.Once.Do: f runs in a call every call after completion would repeat
OnceMustRun_everyCall(once) == once.state # "running"

\* sync.Once.Do: f runs in the first call only
OnceMustRun(once) == once.state = "fresh"

\* defaultGeobedOnce.Do(func): the first caller runs NewGeobed inside Do
OnceDoRun(b) ==
    /\ builders[b].pc = "onceDo"
    /\ OnceMustRun(defaultGeobedOnce)
    /\ defaultGeobedOnce' = [state |-> "running", runs |-> defaultGeobedOnce.runs + 1]
    /\ builders' = [builders EXCEPT ![b] =
          NewGeobedEntry(@, InstanceId(b, builders[b].calls))]
    /\ UNCHANGED <<countryInterner, regionInterner, cacheFiles, dataFiles, downloadMu,
                   defaultGeobed, defaultReturns, BuildOtherVars>>

\* defaultGeobedOnce.Do(func): a later caller returns from Do once f has
\* returned, and blocks until then
OnceDoSkip(b) ==
    /\ builders[b].pc = "onceDo"
    /\ ~OnceMustRun(defaultGeobedOnce)
    /\ defaultGeobedOnce.state = "done"
    /\ builders' = [builders EXCEPT ![b].pc = "read"]
    /\ UNCHANGED <<countryInterner, regionInterner, cacheFiles, dataFiles, downloadMu,
                   defaultGeobedOnce, defaultGeobed, defaultReturns, BuildOtherVars>>

\* g.Cities, err = loadGeobedCityData()
LoadCityData(b) ==
    /\ builders[b].pc = "loadCities"
    /\ IF cacheFiles.cities.ok
       THEN /\ countryInterner' =
                  InternAll(countryInterner, CountryCodes(cacheFiles.cities.data))
            /\ regionInterner' =
                  InternAll(regionInterner, RegionCodes(cacheFiles.cities.data))
            /\ builders' = [builders EXCEPT
                  ![b].g.Cities = ArenaOf(cacheFiles.cities.data,
                                          countryInterner', regionInterner'),
                  ![b].pc = "loadCountries"]
       ELSE /\ builders' = [builders EXCEPT ![b].err = "g.c.dmp",
                                            ![b].pc = "checkCache"]
            /\ UNCHANGED <<countryInterner, regionInterner>>
    /\ UNCHANGED <<cacheFiles, dataFiles, downloadMu, defaultGeobedOnce,
                   defaultGeobed, defaultReturns, BuildOtherVars>>

\* if err == nil { g.Countries, err = loadGeobedCountryData() }
LoadCountryData(b) ==
    /\ builders[b].pc = "loadCountries"
    /\ builders' = [builders EXCEPT ![b] =
          IF cacheFiles.countries.ok
          THEN [@ EXCEPT !.g.Countries = cacheFiles.countries.data,
                         !.pc = "loadNameIndex"]
          ELSE [@ EXCEPT !.err = "g.co.dmp", !.pc = "checkCache"]]
    /\ UNCHANGED <<countryInterner, regionInterner, cacheFiles, dataFiles, downloadMu,
                   defaultGeobedOnce, defaultGeobed, defaultReturns, BuildOtherVars>>

\* if err == nil { g.nameIndex, err = loadNameIndex() }
LoadNameIndex(b) ==
    /\ builders[b].pc = "loadNameIndex"
    /\ builders' = [builders EXCEPT ![b] =
          IF cacheFiles.nameIndex.ok
          THEN [@ EXCEPT !.g.nameIndex = cacheFiles.nameIndex.data,
                         !.pc = "checkCache"]
          ELSE [@ EXCEPT !.err = "nameIndex.dmp", !.pc = "checkCache"]]
    /\ UNCHANGED <<countryInterner, regionInterner, cacheFiles, dataFiles, downloadMu,
                   defaultGeobedOnce, defaultGeobed, defaultReturns, BuildOtherVars>>

\* "if err != nil || len(g.Cities) == 0": the cache is of no use
ColdPath(err, cities) == err # NoError \/ Len(cities) = 0

\* the cold path that keeps what the cache gave
ResetPartial_keep(g) == g

\* g.Cities = nil; g.Countries = nil; g.nameIndex = nil
ResetPartial(g) ==
    [g EXCEPT !.Cities = <<>>, !.Countries = <<>>, !.nameIndex = <<>>]

\* the branch after the three loads
CheckCache(b) ==
    /\ builders[b].pc = "checkCache"
    /\ builders' = [builders EXCEPT ![b] =
          IF ColdPath(builders[b].err, builders[b].g.Cities)
          THEN [@ EXCEPT !.g = ResetPartial(@), !.path = "cold", !.pc = "lock"]
          ELSE [@ EXCEPT !.path = "cache", !.pc = "cells"]]
    /\ UNCHANGED <<countryInterner, regionInterner, cacheFiles, dataFiles, downloadMu,
                   defaultGeobedOnce, defaultGeobed, defaultReturns, BuildOtherVars>>

\* downloadDataSets: downloadMu.Lock()
DownloadLock(b) ==
    /\ builders[b].pc = "lock"
    /\ downloadMu = NoGoroutine
    /\ downloadMu' = b
    /\ builders' = [builders EXCEPT ![b].pc = "download"]
    /\ UNCHANGED <<countryInterner, regionInterner, cacheFiles, dataFiles,
                   defaultGeobedOnce, defaultGeobed, defaultReturns, BuildOtherVars>>

\* downloadDataSets under the lock: every file there already, or fetched,
\* or a fetch fails; the deferred downloadMu.Unlock() runs on every way out
DownloadDataSets(b) ==
    /\ builders[b].pc = "download"
    /\ downloadMu = b
    /\ downloadMu' = NoGoroutine
    /\ \/ /\ dataFiles' = TRUE
          /\ builders' = [builders EXCEPT ![b].pc = "loadRaw"]
       \/ /\ ~dataFiles
          /\ dataFiles' = FALSE
          /\ builders' = [builders EXCEPT
                ![b].pc = "failed",
                ![b].downloadErr = "failed to download data sets"]
    /\ UNCHANGED <<countryInterner, regionInterner, cacheFiles,
                   defaultGeobedOnce, defaultGeobed, defaultReturns, BuildOtherVars>>

\* loadDataSets once the raw cities are appended to g.Cities: the sort and
\* the name-index loop
SortAndIndex(g, appended) ==
    [g EXCEPT !.Cities = SortCities(appended),
              !.Countries = @ \o RawCountries,
              !.nameIndex = BuildNameIndex(SortCities(appended))]

\* g.loadDataSets(): the data files are read without any lock
LoadDataSets(b) ==
    /\ builders[b].pc = "loadRaw"
    /\ countryInterner' = InternAll(countryInterner, CountryCodes(RawCities))
    /\ regionInterner' = InternAll(regionInterner, RegionCodes(RawCities))
    /\ builders' = [builders EXCEPT ![b] =
          [@ EXCEPT !.g = SortAndIndex(@, builders[b].g.Cities \o
                            ArenaOf(RawCities, countryInterner', regionInterner')),
                    !.pc = "storeCities"]]
    /\ UNCHANGED <<cacheFiles, dataFiles, downloadMu, defaultGeobedOnce,
                   defaultGeobed, defaultReturns, BuildOtherVars>>

\* g.store(): os.WriteFile of g.c.dmp
StoreCities(b) ==
    /\ builders[b].pc = "storeCities"
    /\ cacheFiles' = [cacheFiles EXCEPT !.cities =
          BlobOf(GobCities(builders[b].g.Cities, countryInterner, regionInterner))]
    /\ builders' = [builders EXCEPT ![b].pc = "storeCountries"]
    /\ UNCHANGED <<countryInterner, regionInterner, dataFiles, downloadMu,
                   defaultGeobedOnce, defaultGeobed, defaultReturns, BuildOtherVars>>

\* g.store(): os.WriteFile of g.co.dmp
StoreCountries(b) ==
    /\ builders[b].pc = "storeCountries"
    /\ cacheFiles' = [cacheFiles EXCEPT !.countries = BlobOf(builders[b].g.Countries)]
    /\ builders' = [builders EXCEPT ![b].pc = "storeNameIndex"]
    /\ UNCHANGED <<countryInterner, regionInterner, dataFiles, downloadMu,
                   defaultGeobedOnce, defaultGeobed, defaultReturns, BuildOtherVars>>

\* g.store(): os.WriteFile of nameIndex.dmp
StoreNameIndex(b) ==
    /\ builders[b].pc = "storeNameIndex"
    /\ cacheFiles' = [cacheFiles EXCEPT !.nameIndex = BlobOf(builders[b].g.nameIndex)]
    /\ builders' = [builders EXCEPT ![b].pc = "cells"]
    /\ UNCHANGED <<countryInterner, regionInterner, dataFiles, downloadMu,
                   defaultGeobedOnce, defaultGeobed, defaultReturns, BuildOtherVars>>

\* g.buildCellIndex()
buildCellIndex(b) ==
    /\ builders[b].pc = "cells"
    /\ builders' = [builders EXCEPT
          ![b].g.cellIndex = BuildCellIndex(builders[b].g.Cities),
          ![b].pc = "built"]
    /\ UNCHANGED <<countryInterner, regionInterner, cacheFiles, dataFiles, downloadMu,
                   defaultGeobedOnce, defaultGeobed, defaultReturns, BuildOtherVars>>

\* what NewGeobed returns: "return g, nil" or "return nil, fmt.Errorf(...)"
NewGeobedResult(r) ==
    IF r.pc = "built" THEN Returned(r.g, NoError)
    ELSE Returned(NilGeobed, r.downloadErr)

\* NewGeobed returns to its caller
NewGeobedReturn(b) ==
    /\ builders[b].pc \in {"built", "failed"}
    /\ builders[b].via = "NewGeobed"
    /\ builders' = [builders EXCEPT ![b].ret = NewGeobedResult(builders[b]),
                                    ![b].pc = "returned"]
    /\ UNCHANGED <<countryInterner, regionInterner, cacheFiles, dataFiles, downloadMu,
                   defaultGeobedOnce, defaultGeobed, defaultReturns, BuildOtherVars>>

\* "defaultGeobed, defaultGeobedErr = NewGeobed()", and Do marks itself done
OnceDone(b) ==
    /\ builders[b].pc \in {"built", "failed"}
    /\ builders[b].via = "GetDefaultGeobed"
    /\ defaultGeobed' = NewGeobedResult(builders[b])
    /\ defaultGeobedOnce' = [defaultGeobedOnce EXCEPT !.state = "done"]
    /\ builders' = [builders EXCEPT ![b].pc = "read"]
    /\ UNCHANGED <<countryInterner, regionInterner, cacheFiles, dataFiles, downloadMu,
                   defaultReturns, BuildOtherVars>>

\* "return defaultGeobed, defaultGeobedErr"
GetDefaultGeobedReturn(b) ==
    /\ builders[b].pc = "read"
    /\ builders' = [builders EXCEPT ![b].ret = defaultGeobed, ![b].pc = "returned"]
    /\ defaultReturns' = defaultReturns \cup
          {[id |-> defaultGeobed.g.id, err |-> defaultGeobed.err]}
    /\ UNCHANGED <<countryInterner, regionInterner, cacheFiles, dataFiles, downloadMu,
                   defaultGeobedOnce, defaultGeobed, BuildOtherVars>>

\* the goroutine goes on to its next call
BuildAgain(b) ==
    /\ builders[b].pc = "returned"
    /\ builders[b].calls < MaxBuildCalls
    /\ builders' = [builders EXCEPT ![b].pc = "idle"]
    /\ UNCHANGED <<countryInterner, regionInterner, cacheFiles, dataFiles, downloadMu,
                   defaultGeobedOnce, defaultGeobed, defaultReturns, BuildOtherVars>>

NextBuild ==
    \E b \in Builders :
        \/ NewGeobedCall(b)
        \/ GetDefaultGeobedCall(b)
        \/ OnceDoRun(b)
        \/ OnceDoSkip(b)
        \/ LoadCityData(b)
        \/ LoadCountryData(b)
        \/ LoadNameIndex(b)
        \/ CheckCache(b)
        \/ DownloadLock(b)
        \/ DownloadDataSets(b)
        \/ LoadDataSets(b)
        \/ StoreCities(b)
        \/ StoreCountries(b)
        \/ StoreNameIndex(b)
        \/ buildCellIndex(b)
        \/ NewGeobedReturn(b)
        \/ OnceDone(b)
        \/ GetDefaultGeobedReturn(b)
        \/ BuildAgain(b)

SpecBuild == InitBuild /\ [][NextBuild]_vars

(***************************************************************************)
(* Claims about construction, checked under SpecBuild.                     *)
(***************************************************************************)
\* the goroutines whose call of GetDefaultGeobed has returned
DefaultReturned ==
    {b \in Builders : builders[b].via = "GetDefaultGeobed" /\ builders[b].pc = "returned"}

\* C12: GetDefaultGeobed runs the constructor exactly once per process; every
\* call, concurrent or later, returns the same instance and the same error,
\* the result of that single run, and a failed run is never tried again.
C12_DefaultBuiltOnce ==
    /\ defaultGeobedOnce.runs <= 1
    /\ Cardinality(defaultReturns) <= 1
    /\ \A r \in defaultReturns :
          /\ r.id = defaultGeobed.g.id
          /\ r.err = defaultGeobed.err
          /\ (r.err = NoError) = (r.id # NilGeobed.id)
    /\ \A b \in DefaultReturned :
          /\ defaultGeobedOnce = [state |-> "done", runs |-> 1]
          /\ builders[b].ret = defaultGeobed
          /\ builders[b].ret.err = NoError =>
                /\ Len(builders[b].ret.g.Cities) > 0
                /\ builders[b].ret.g.cellIndex = BuildCellIndex(builders[b].ret.g.Cities)

\* the single run failed, and its error came back to the goroutine that ran
\* it, to the other goroutine, and to a later call
C12_FailureHandedToAll ==
    /\ DefaultReturned = Builders
    /\ defaultGeobed.err # NoError
    /\ \E b1 \in Builders, b2 \in Builders :
          /\ builders[b1].path = "cold"
          /\ builders[b2].path = "none"
          /\ builders[b2].calls = MaxBuildCalls
          /\ builders[b1].ret = Returned(NilGeobed, defaultGeobed.err)
          /\ builders[b2].ret = builders[b1].ret

\* the goroutine has written one of the three blobs and has another to write
Storing(b) == builders[b].pc \in {"storeCountries", "storeNameIndex"}

\* C13: cold-path cache regeneration is mutually exclusive: no two
\* constructors ever write the cache files of the same cache directory at the
\* same time.
C13_NoTwoCacheWriters ==
    \A b1 \in Builders, b2 \in Builders : b1 # b2 => ~(Storing(b1) /\ Storing(b2))

\* the errors of the three cache loads
CacheErrors == {"g.c.dmp", "g.co.dmp", "nameIndex.dmp"}

\* no member of the sequence occurs twice
NoDuplicates(xs) == \A i \in 1..Len(xs), j \in 1..Len(xs) : xs[i] = xs[j] => i = j

\* the instance is the one a cold build makes of the raw files alone
IsColdBuild(g, cInt, rInt) ==
    /\ GobCities(g.Cities, cInt, rInt) = SortCities(RawCities)
    /\ g.Countries = RawCountries
    /\ g.nameIndex = BuildNameIndex(SortCities(RawCities))
    /\ NoDuplicates(GobCities(g.Cities, cInt, rInt))
    /\ NoDuplicates(g.Countries)

\* C14: a cache-read failure is invisible in the result: whichever of the
\* three blobs fails to load, NewGeobed returns no cache error, and the
\* instance it returns has the arena, country sequence and name index of a
\* cold build started with no cache; nothing loaded before the failure
\* survives, so no city or country appears twice.
C14_CacheFailureInvisible ==
    \A b \in Builders :
        (builders[b].pc = "returned" /\ builders[b].err \in CacheErrors) =>
            /\ builders[b].ret.err \notin CacheErrors
            /\ builders[b].ret.err = NoError =>
                  IsColdBuild(builders[b].ret.g, countryInterner, regionInterner)

\* the city blob and the country blob of an earlier release were loaded, the
\* name index then failed, and the call returned an instance
C14_ThirdBlobFailed ==
    \E b \in Builders :
        /\ builders[b].pc = "returned"
        /\ builders[b].err = "nameIndex.dmp"
        /\ builders[b].ret.err = NoError
        /\ IndexHit(regionInterner, OldRawCities[1].Region)
        /\ Len(builders[b].ret.g.Cities) = Len(RawCities)

\* the posting list of key in idx names the arena index i
Posted(idx, key, i) ==
    key \in DOMAIN idx /\ \E k \in 1..Len(idx[key]) : idx[key][k] = i

\* every name of the city at arena index i leads to i
NamesPosted(idx, city, i) ==
    /\ city.City # <<>> => Posted(idx, toLower(city.City), i)
    /\ \A k \in 1..Len(Split(city.CityAlt, 44)) :
          TrimSpace(Split(city.CityAlt, 44)[k]) # <<>> =>
              Posted(idx, toLower(TrimSpace(Split(city.CityAlt, 44)[k])), i)

\* the goroutine's instance has been through loadDataSets
ColdBuilt(b) ==
    /\ builders[b].path = "cold"
    /\ builders[b].pc \in {"storeCities", "storeCountries", "storeNameIndex",
                           "cells", "built", "read", "returned"}

\* C15: name index completeness after a cold build: for every arena index i,
\* the posting list at the lower-cased primary name of city i contains i when
\* the name is non-empty, and so does the list at the lower-cased form of
\* every non-empty trimmed entry of the comma-split alternate-names field; i
\* is the city's position in the arena after sorting.
C15_NameIndexComplete ==
    \A b \in Builders :
        ColdBuilt(b) =>
            \A i \in 1..Len(builders[b].g.Cities) :
                NamesPosted(builders[b].g.nameIndex, builders[b].g.Cities[i], i)

\* a cold build was returned whose sort moved the third city of the file to
\* the front, and the key "po" lists it for its alternate name together with
\* the two cities of that primary name
C15_SortedAndPosted ==
    \E b \in Builders :
        /\ ColdBuilt(b)
        /\ builders[b].pc = "returned"
        /\ Len(builders[b].g.Cities) = Len(RawCities)
        /\ builders[b].g.Cities[1].City = RawCities[3].City
        /\ builders[b].g.nameIndex[toLower(RawCities[2].City)] = <<1, 2, 3>>

\* the goroutine's constructor has built its instance, cell index included
Built(b) ==
    /\ builders[b].path # "none"
    /\ builders[b].downloadErr = NoError
    /\ builders[b].pc \in {"built", "read", "returned"}

\* the places of the cell index at which the arena index i stands
CellPlaces(idx, i) ==
    {p \in UNION {{<<cell, k>> : k \in 1..Len(idx[cell])} : cell \in DOMAIN idx} :
        idx[p[1]][p[2]] = i}

\* each arena index stands at one place, in the list of its city's cell, and
\* the lists name arena indices only
CellIndexComplete(g) ==
    /\ \A i \in 1..Len(g.Cities) :
          /\ Cardinality(CellPlaces(g.cellIndex, i)) = 1
          /\ \A p \in CellPlaces(g.cellIndex, i) :
                p[1] = CellOf(g.Cities[i].Latitude, g.Cities[i].Longitude)
    /\ \A cell \in DOMAIN g.cellIndex : \A k \in 1..Len(g.cellIndex[cell]) :
          g.cellIndex[cell][k] \in 1..Len(g.Cities)

\* C16: cell index completeness: after construction, by the cache-load or by
\* the cold-build path, every arena index appears in exactly one posting list
\* of the cell index, the list of the level-10 cell enclosing the city's
\* position; no index appears twice, none lies outside the arena.
C16_CellIndexComplete ==
    \A b \in Builders : Built(b) => CellIndexComplete(builders[b].g)

\* one goroutine built from the cache and the other by the cold path, each
\* with several cities in one cell
C16_BothPathsBuilt ==
    \E b1 \in Builders, b2 \in Builders :
        /\ Built(b1) /\ builders[b1].path = "cache"
        /\ Built(b2) /\ builders[b2].path = "cold"
        /\ \E cell \in DOMAIN builders[b1].g.cellIndex :
              Len(builders[b1].g.cellIndex[cell]) > 1
        /\ \E cell \in DOMAIN builders[b2].g.cellIndex :
              Len(builders[b2].g.cellIndex[cell]) > 1

(***************************************************************************)
(* SpecAdmin: admin-division lookups over the file of one data directory.  *)
(***************************************************************************)
\* the files admin1CodesASCII.txt can be: none; two records; a code that two
\* countries share; a code in lower case; a record with an empty name; lines
\* the scanner skips
AdminTestFiles ==
    { Missing,
      FileOf(<< Str(<<"C","A",".","O","N","\t","O","n","t">>),
                Str(<<"U","S",".","T","X","\t","T","e","x">>) >>),
      FileOf(<< Str(<<"C","A",".","A","B","\t","A","l","b">>),
                Str(<<"U","S",".","A","B","\t","A","b","c">>),
                Str(<<"U","S",".","T","X","\t","T","e","x","\t","T","e","x">>) >>),
      FileOf(<< Str(<<"C","A",".","o","n","\t","O","n","t">>),
                Str(<<"U","S",".","T","X","\t","T","e","x">>) >>),
      FileOf(<< Str(<<"C","A",".","O","N","\t">>),
                Str(<<"U","S",".","T","X","\t","T","e","x">>) >>),
      FileOf(<< <<>>, Str(<<"C","A","O","N","\t","O","n","t">>),
                Str(<<"C","A",".","O","N">>),
                Str(<<"U","S",".","T","X","\t","T","e","x">>) >>) }

\* the country codes and division codes callers ask about
AdminCountries == {CA, US, FR}

AdminCodes ==
    { Str(<<"O","N">>), Str(<<"o","n">>), Str(<<"O","n">>), Str(<<"T","X">>),
      Str(<<"t","x">>), Str(<<"A","B">>), Str(<<"a","b">>), Str(<<"Z","Z">>) }

InitAdmin ==
    /\ Cities = <<>>
    /\ Countries = <<>>
    /\ nameIndex = <<>>
    /\ cellIndex = <<>>
    /\ countryInterner = newStringInterner(MaxUint16)
    /\ regionInterner = newStringInterner(MaxUint16)
    /\ adminFile \in AdminTestFiles
    /\ adminDivisionsCache = NotLoaded
    /\ pc = "idle"
    /\ call = NoCall
    /\ scores = <<>>
    /\ result = Pending
    /\ previous = Pending
    /\ input = <<>>
    /\ handed = <<>>
    /\ InternerAtRest
    /\ BuildAtRest
    /\ AdminAtRest
    /\ LaterAtRest

\* what an admin-division lookup leaves alone
AdminOtherVars ==
    <<instanceVars, pc, call, scores, result, previous, inputVars, internVars,
      buildVars, laterVars>>

\* the countries of the table: the keys of its outer map
TableCountries(divisions) == {d[1] : d \in DOMAIN divisions}

\* the loop "for countryCode, countryDivisions := range divisions" of
\* getAdminDivisionCountry, order being the order the range takes
RECURSIVE CountryMatches(_, _, _)
CountryMatches(divisions, code, order) ==
    IF order = <<>> THEN <<>>
    ELSE (IF <<Head(order), code>> \in DOMAIN divisions THEN <<Head(order)>> ELSE <<>>)
         \o CountryMatches(divisions, code, Tail(order))

\* the first match returned whenever there is one
UniqueMatch_first(matches) == IF Len(matches) >= 1 THEN matches[1] ELSE NoString

\* "if len(matches) == 1 { return matches[0] }; return \"\""
UniqueMatch(matches) == IF Len(matches) = 1 THEN matches[1] ELSE NoString

\* g.isAdminDivision(countryCode, divisionCode); the first lookup of a
\* directory reads the file and caches the table
IsAdminDivisionCall ==
    \E countryCode \in AdminCountries, code \in AdminCodes :
        /\ adminQuery' = AdminQuery("isAdminDivision", countryCode, code)
        /\ adminAnswer' = AdminAnswer(isAdminDivision(countryCode, code), NoString)
        /\ adminDivisionsCache' = Loaded(loadAdminDivisionsForDir)
        /\ UNCHANGED AdminOtherVars

\* g.getAdminDivisionCountry(code)
GetAdminDivisionCountryCall ==
    \E code \in AdminCodes, order \in Orders(TableCountries(loadAdminDivisionsForDir)) :
        /\ adminQuery' = AdminQuery("getAdminDivisionCountry", NoString, code)
        /\ adminAnswer' = AdminAnswer(FALSE,
              UniqueMatch(CountryMatches(loadAdminDivisionsForDir, toUpper(code), order)))
        /\ adminDivisionsCache' = Loaded(loadAdminDivisionsForDir)
        /\ UNCHANGED AdminOtherVars

\* g.getAdminDivisionName(countryCode, divisionCode)
GetAdminDivisionNameCall ==
    \E countryCode \in AdminCountries, code \in AdminCodes :
        /\ adminQuery' = AdminQuery("getAdminDivisionName", countryCode, code)
        /\ adminAnswer' = AdminAnswer(FALSE, getAdminDivisionName(countryCode, code))
        /\ adminDivisionsCache' = Loaded(loadAdminDivisionsForDir)
        /\ UNCHANGED AdminOtherVars

NextAdmin ==
    \/ IsAdminDivisionCall
    \/ GetAdminDivisionCountryCall
    \/ GetAdminDivisionNameCall

SpecAdmin == InitAdmin /\ [][NextAdmin]_vars

(***************************************************************************)
(* Claims about the admin-division table, checked under SpecAdmin.         *)
(***************************************************************************)
\* the countries of the table that have the division code
HavingCode(divisions, code) == {d[1] : d \in {e \in DOMAIN divisions : e[2] = code}}

\* text is the country exactly when it is the only one of having
OnlyCountry(having, text) ==
    /\ \A C \in AdminCountries : (text = C) = (having = {C})
    /\ Cardinality(having) # 1 => text = NoString

\* C17: getAdminDivisionCountry(code) returns country C if and only if C is
\* the only country of the loaded table that has the upper-cased code; with no
\* such country or several it returns the empty string, whatever the order in
\* which the countries are iterated.
C17_UniqueCountryOnly ==
    adminQuery.op = "getAdminDivisionCountry" =>
        OnlyCountry(HavingCode(adminDivisionsCache.divisions, toUpper(adminQuery.code)),
                    adminAnswer.text)

\* a code that two countries have was asked for, in lower case, and the empty
\* string came back
C17_AmbiguousCode ==
    /\ adminQuery.op = "getAdminDivisionCountry"
    /\ adminQuery.code # toUpper(adminQuery.code)
    /\ Cardinality(HavingCode(adminDivisionsCache.divisions,
                              toUpper(adminQuery.code))) = 2
    /\ adminAnswer.text = NoString

\* C18: for every (country, code) pair and every admin-division table that
\* can be loaded from a file, isAdminDivision(country, code) is true if and
\* only if getAdminDivisionName(country, code) is non-empty.
C18_DivisionIffNamed ==
    adminQuery.op = "isAdminDivision" =>
        adminAnswer.exists =
            (getAdminDivisionName(adminQuery.countryCode, adminQuery.code) # NoString)

\* the line is a record "CC.CODE<tab>Name..." the scanner keeps
IsAdminRecord(line) ==
    /\ line # <<>>
    /\ Len(Split(line, 9)) >= 2
    /\ Len(SplitDot2(Split(line, 9)[1])) = 2

\* the records of the file: country, code and name as written in it
AdminRecords(file) ==
    { [countryCode |-> SplitDot2(Split(file.lines[k], 9)[1])[1],
       code |-> SplitDot2(Split(file.lines[k], 9)[1])[2],
       name |-> Split(file.lines[k], 9)[2]] :
        k \in {j \in 1..Len(file.lines) : IsAdminRecord(file.lines[j])} }

\* the records of the file the query names, letter case of the code aside
AskedRecords ==
    { rec \in AdminRecords(adminFile) :
        /\ toUpper(rec.code) = toUpper(adminQuery.code)
        /\ adminQuery.op # "getAdminDivisionCountry" =>
              rec.countryCode = adminQuery.countryCode }

\* C19: admin-division codes are upper-cased when a record is stored and when
\* a code is looked up, so a record of the file is found by isAdminDivision,
\* getAdminDivisionCountry and getAdminDivisionName whatever the letter case
\* of its code in the file and of the queried code.
C19_FoundWhateverTheCase ==
    AskedRecords # {} =>
        /\ adminQuery.op = "isAdminDivision" => adminAnswer.exists
        /\ adminQuery.op = "getAdminDivisionName" =>
              adminAnswer.text \in {rec.name : rec \in AskedRecords}
        /\ ( /\ adminQuery.op = "getAdminDivisionCountry"
             /\ \A r1 \in AskedRecords, r2 \in AskedRecords :
                   r1.countryCode = r2.countryCode )
           => adminAnswer.text \in {rec.countryCode : rec \in AskedRecords}

(***************************************************************************)
(* The neighbour set of ReverseGeocode, checked under Spec.                *)
(***************************************************************************)
\* the cell and the 8 cells around it
Surrounding(cell) ==
    {<<cell[1] + dx, cell[2] + dy>> : dx \in {-1, 0, 1}, dy \in {-1, 0, 1}}

\* cells is the neighbour set of cell: the cell first, then its 8 surrounding
\* cells, none twice
IsNeighbourSet(cell, cells) ==
    /\ cells[1] = cell
    /\ NoDuplicates(cells)
    /\ Len(cells) = Cardinality(Surrounding(cell))
    /\ {cells[k] : k \in 1..Len(cells)} = Surrounding(cell)

\* C20: the neighbour set ReverseGeocode uses is the query cell and its 8
\* surrounding cells (4 edge and 4 corner neighbours): cellAndNeighbors returns
\* the query cell first, no cell twice and nine cells in the general case, so
\* candidates come from those nine posting lists only.
C20_NineCellNeighbourhood ==
    (pc = "done" /\ call.op = "ReverseGeocode") =>
        /\ IsNeighbourSet(CellOf(call.lat, call.lng),
                          cellAndNeighbors(CellOf(call.lat, call.lng)))
        /\ \A k \in 1..Len(CallCandidates) :
              CellOf(CallCandidates[k].city.Latitude, CallCandidates[k].city.Longitude)
                  \in Surrounding(CellOf(call.lat, call.lng))

(***************************************************************************)
(* The scored matcher's bonus and winner, checked under Spec.              *)
(***************************************************************************)
\* a scored Geocode call has returned through the selection of a winner;
\* scores is then the table the selection read
Selected == pc = "done" /\ ScoredCall /\ DOMAIN scores # {}

\* candidate k is not beaten by candidate j: higher score, then higher
\* population, then lower arena index
Beats(k, j) ==
    \/ scores[k] > scores[j]
    \/ /\ scores[k] = scores[j]
       /\ \/ Cities[k].Population > Cities[j].Population
          \/ /\ Cities[k].Population = Cities[j].Population
             /\ k <= j

\* C21: winner selection in scored mode: the returned city has the maximum
\* final score among the scored candidates, among those the maximum
\* population, among those the minimum arena index, whatever the order in
\* which the score table is traversed.
C21_WinnerIsBest ==
    Selected =>
        \E k \in DOMAIN scores :
            /\ result = Cities[k]
            /\ \A j \in DOMAIN scores : Beats(k, j)

\* the winner was chosen by arena index: another candidate has its score and
\* its population
C21_IndexBrokeTheTie ==
    /\ Selected
    /\ \E k \in DOMAIN scores, j \in DOMAIN scores :
          /\ k < j
          /\ result = Cities[k]
          /\ Cities[j] # Cities[k]
          /\ scores[j] = scores[k]
          /\ Cities[j].Population = Cities[k].Population
          /\ \A i \in DOMAIN scores : Beats(k, i)

\* a scored Geocode call has run the bonus block; scores is the table after it
Bonused == pc = "bonused" /\ DOMAIN scores # {}

\* what candidate k had when the scoring loop ended, and the point the bonus
\* block adds to every candidate of population 1000 or more
ScoredBefore(k) == ScoreOf(CallN, CallPieces, CallDistance, Cities[k])

PopulousPoint(k) ==
    IF CallPieces.nCo = NoString /\ Cities[k].Population >= 1000 THEN 1 ELSE 0

\* the candidates that received the highest-population bonus
HighestBonus == {k \in DOMAIN scores : scores[k] = ScoredBefore(k) + PopulousPoint(k) + 1}

\* the candidates that received nothing beyond the point for 1000 or more
NoHighestBonus == {k \in DOMAIN scores : scores[k] = ScoredBefore(k) + PopulousPoint(k)}

\* one candidate has the bonus, and no scored candidate has more inhabitants
OneBonusToTheBiggest ==
    /\ Cardinality(HighestBonus) = 1
    /\ HighestBonus \cup NoHighestBonus = DOMAIN scores
    /\ \A k \in HighestBonus : \A j \in DOMAIN scores :
          Cities[j].Population <= Cities[k].Population

\* C22 as claimed: with no country parsed, exactly one scored candidate
\* receives the highest-population bonus, one of maximum population; with a
\* country parsed, none receives it.
C22_ExactlyOneBonus ==
    Bonused =>
        IF CallPieces.nCo = NoString THEN OneBonusToTheBiggest
        ELSE NoHighestBonus = DOMAIN scores

\* C22: with no country parsed and a scored candidate of positive population,
\* exactly one scored candidate receives the +1 highest-population bonus, one
\* of maximum population over the scored candidates; with a country parsed,
\* or with every scored candidate of population 0, no candidate receives it.
C22_OneBonusIfPopulated ==
    Bonused =>
        IF /\ CallPieces.nCo = NoString
           /\ \E k \in DOMAIN scores : Cities[k].Population > 0
        THEN OneBonusToTheBiggest
        ELSE NoHighestBonus = DOMAIN scores

\* no country was parsed, the scored candidates differ in population, and
\* the one bonus went to the biggest
C22_BonusToTheBiggest ==
    /\ Bonused
    /\ CallPieces.nCo = NoString
    /\ OneBonusToTheBiggest
    /\ \E j \in DOMAIN scores, k \in HighestBonus :
          Cities[j].Population < Cities[k].Population

(***************************************************************************)
(* SpecExact: Geocode in exact-city mode, on arenas of cities that share   *)
(* one name.                                                               *)
(***************************************************************************)
\* stored cities of the name "Po": one without region code, two that differ
\* in position only, two of population 0 in one region, one more in the same
\* country
ExactPool ==
    << StoredCity(Str(<<"P","o">>), <<>>, FR, <<>>, 0, 0, 5000),
       StoredCity(Str(<<"P","o">>), <<>>, CA, Str(<<"O","N">>), 0, 150, 50000),
       StoredCity(Str(<<"P","o">>), <<>>, CA, Str(<<"O","N">>), 300, 150, 50000),
       StoredCity(Str(<<"P","o">>), <<>>, US, Str(<<"T","X">>), 100, 0, 0),
       StoredCity(Str(<<"P","o">>), <<>>, US, Str(<<"T","X">>), 100, 300, 0),
       StoredCity(Str(<<"P","o">>), <<>>, US, Str(<<"O","R">>), 400, 0, 700) >>

ExactCountryInfos ==
    CountryInfos \o << [Country |-> Str(<<"U","s","a">>), ISO |-> US] >>

\* the strings callers pass to Geocode with ExactCity
ExactInputs ==
    { Str(<<"P","o">>), Str(<<"p","o"," ">>),
      Str(<<"P","o",","," ","C","a","n">>), Str(<<"P","o",","," ","F","r","a">>),
      Str(<<"P","o",","," ","U","s","a">>), Str(<<"P","o",","," ","T","X">>),
      Str(<<"P","o"," ","O","N">>), Str(<<"Z","z">>) }

ExactCalls ==
    { [op |-> "Geocode", n |-> n, ExactCity |-> TRUE, FuzzyDistance |-> 0,
       lat |-> 0, lng |-> 0] : n \in ExactInputs }

\* at most MaxCities cities of the pool, in any order: they all sort alike
ExactArenas ==
    { [k \in 1..Len(o) |-> ExactPool[o[k]]] :
        o \in UNION { Orders(S) : S \in { S \in SUBSET (1..Len(ExactPool)) :
                                          Cardinality(S) <= MaxCities } } }

\* an instance as NewGeobed leaves it, holding the stored cities
Constructed(stored, cInt, rInt) ==
    /\ Cities = ArenaOf(stored, cInt, rInt)
    /\ countryInterner = cInt
    /\ regionInterner = rInt
    /\ nameIndex = BuildNameIndex(stored)
    /\ cellIndex = BuildCellIndex(stored)

InitExact ==
    /\ \E stored \in ExactArenas :
          Constructed(stored,
                      InternAll(newStringInterner(MaxUint16), CountryCodes(stored)),
                      InternAll(newStringInterner(MaxUint16), RegionCodes(stored)))
    /\ Countries = ExactCountryInfos
    /\ adminFile \in AdminFiles
    /\ adminDivisionsCache = NotLoaded
    /\ pc = "idle"
    /\ call = NoCall
    /\ scores = <<>>
    /\ result = Pending
    /\ previous = Pending
    /\ input = <<>>
    /\ handed = <<>>
    /\ InternerAtRest
    /\ BuildAtRest
    /\ AdminAtRest
    /\ LaterAtRest

\* a caller invokes Geocode with ExactCity set
CallExact ==
    /\ pc = "idle"
    /\ call' \in ExactCalls
    /\ pc' = "called"
    /\ UNCHANGED <<instanceVars, adminDivisionsCache, scores, result, previous,
                   inputVars, internVars, buildVars, adminVars, laterVars>>

NextExact ==
    \/ CallExact
    \/ GeocodeStart
    \/ Again
    \/ Return

SpecExact == InitExact /\ [][NextExact]_vars

\* an exact-city Geocode returned from exactMatchCity
ExactDone == pc = "done" /\ call.op = "Geocode" /\ call.ExactCity /\ CallN # <<>>

\* matchingCities of the call in progress, as arena indices
ExactMatching ==
    { k \in ExactCandidateSet(CallN, CallPieces) :
        \/ EqualFold(CallN, Cities[k].City)
        \/ EqualFold(Join(CallPieces.nSlice, Space), Cities[k].City) }

\* the candidates whose region is the parsed region
InParsedRegion ==
    { k \in ExactMatching : EqualFold(CallPieces.nSt, Region(Cities[k])) }

\* the candidates in the parsed country
InParsedCountry ==
    { k \in ExactMatching : EqualFold(CallPieces.nCo, Country(Cities[k])) }

\* the records of highest population among the cities at the indices S
MostPopulous(S) ==
    { Cities[k] : k \in { k \in S : \A j \in S :
                              Cities[j].Population <= Cities[k].Population } }

\* C23: exact-city mode with more than one candidate: if some candidate's
\* region equals the parsed region, the result is a highest-population
\* candidate of that region, replaced by a highest-population candidate of
\* the parsed region and the parsed country when there is one; otherwise the
\* result is a highest-population candidate in the parsed country, one of
\* them (never the empty record) even when all of them have population 0.
C23_ExactResolution ==
    (ExactDone /\ Cardinality(ExactMatching) > 1) =>
        IF InParsedRegion \cap InParsedCountry # {}
        THEN result \in MostPopulous(InParsedRegion \cap InParsedCountry)
        ELSE IF InParsedRegion # {}
        THEN result \in MostPopulous(InParsedRegion)
        ELSE InParsedCountry # {} => result \in MostPopulous(InParsedCountry)

\* several candidates, a region on its own in the parsed region whose cities
\* all have population 0, and a more populous candidate of the same country
\* elsewhere
C23_ZeroPopulationRegion ==
    /\ ExactDone
    /\ Cardinality(ExactMatching) > 1
    /\ InParsedRegion # {}
    /\ \A k \in InParsedRegion : Cities[k].Population = 0
    /\ \E k \in InParsedCountry \ InParsedRegion : Cities[k].Population > 0
    /\ result \in MostPopulous(InParsedRegion)

\* C24: exact-city mode is deterministic: a repeated call on the same
\* instance with the same query returns the record the call before it
\* returned, whatever order the candidate set is visited in, candidates of
\* equal population included.
C24_ExactGeocodeDeterministic ==
    (ExactDone /\ previous # Pending) => result = previous

\* C30: in exact-city mode, when the parser extracted a country and at least
\* one name-matching candidate lies in that country, a query with several
\* candidates never returns a city of another country: a candidate whose
\* region code is empty is not preferred when no region was parsed.
C30_ParsedCountryKept ==
    (ExactDone /\ Cardinality(ExactMatching) > 1
       /\ CallPieces.nCo # <<>> /\ InParsedCountry # {})
    => EqualFold(CallPieces.nCo, Country(result))

(***************************************************************************)
(* SpecParse: extractLocationPieces on its own, over country sequences in  *)
(* which one name ends with another.                                       *)
(***************************************************************************)
ParseCountryInfos ==
    { [Country |-> Str(<<"F","r","a">>), ISO |-> FR],
      [Country |-> Str(<<"C","a","n">>), ISO |-> CA],
      [Country |-> Str(<<"A","b"," ","C","a","n">>), ISO |-> Str(<<"A","B">>)] }

\* the three countries in every file order
ParseCountries ==
    { [k \in 1..Cardinality(ParseCountryInfos) |-> o[k]] :
        o \in Orders(ParseCountryInfos) }

\* the trimmed, non-empty strings Geocode hands to the parser
ParseInputs ==
    { Str(t) : t \in
      { <<"P","o">>, <<"P","o","T","X">>,
        <<"T","X">>, <<"t","x",","," ","P","o">>, <<"T","X"," ","P","o">>,
        <<"P","o",","," ","t","x">>, <<"P","o"," ","T","X">>,
        <<"O","R",","," ","T","X">>, <<"P","o"," ","O","N">>,
        <<"F","r","a">>, <<"f","r","a",","," ","P","o">>, <<"F","r","a"," ","P","o">>,
        <<"P","o",","," ","F","r","a">>, <<"P","o"," ","f","r","a">>,
        <<"P","o",","," ","T","X",","," ","F","r","a">>,
        <<"O","R",","," ","T","X",","," ","C","a","n">>,
        <<"A","b"," ","C","a","n">>, <<"C","a","n",","," ","F","r","a">>,
        <<"P","o"," ","O","N",","," ","C","a","n">>,
        <<"F","r","a",","," ","P","o",","," ","F","r","a">> } }

InitParse ==
    /\ Constructed(<<>>, newStringInterner(MaxUint16), newStringInterner(MaxUint16))
    /\ Countries \in ParseCountries
    /\ adminFile \in AdminFiles
    /\ adminDivisionsCache = NotLoaded
    /\ pc = "idle"
    /\ call = NoCall
    /\ scores = <<>>
    /\ result = Pending
    /\ previous = Pending
    /\ input = <<>>
    /\ handed = <<>>
    /\ InternerAtRest
    /\ BuildAtRest
    /\ AdminAtRest
    /\ ParseAtRest
    /\ IngestAtRest
    /\ LoadAtRest

ParseOtherVars ==
    <<instanceVars, pc, call, scores, result, previous, inputVars, internVars,
      buildVars, adminVars, ingestVars, loadVars>>

\* extractLocationPieces(n) from entry to return: co is what the country
\* loop left in (nCo, n), st what the state loop left in (nSt, n)
ParseOf(n, co) ==
    [pc |-> "returned", n |-> n, co |-> co, st |-> ExtractState(co.n),
     out |-> PiecesAfterCountry(n, co)]

Parse ==
    /\ parse.pc = "idle"
    /\ \E n \in ParseInputs :
        /\ parse' = ParseOf(n, ExtractCountry(n))
        /\ adminDivisionsCache' = CacheAfter(extractLocationPieces(n))
    /\ UNCHANGED ParseOtherVars

\* the next query reaches the parser
ParseAgain ==
    /\ parse.pc = "returned"
    /\ parse' = NoParse
    /\ UNCHANGED <<adminDivisionsCache, ParseOtherVars>>

NextParse ==
    \/ Parse
    \/ ParseAgain

SpecParse == InitParse /\ [][NextParse]_vars

\* the five shapes of name in n, in the order they are tried, each with the
\* input left when its span is removed
Shapes(n, name) ==
    << [hit |-> EqualFold(n, name), rest |-> NoString],
       [hit |-> Len(n) > Len(name) + 2
                /\ EqualFold(Take(n, Len(name) + 2), name \o CommaSpace),
        rest |-> Drop(n, Len(name) + 2)],
       [hit |-> Len(n) > Len(name) + 1
                /\ EqualFold(Take(n, Len(name) + 1), name \o Space),
        rest |-> Drop(n, Len(name) + 1)],
       [hit |-> Len(n) > Len(name) + 2
                /\ EqualFold(Drop(n, Len(n) - Len(name) - 2), CommaSpace \o name),
        rest |-> Take(n, Len(n) - Len(name) - 2)],
       [hit |-> Len(n) > Len(name) + 1
                /\ EqualFold(Drop(n, Len(n) - Len(name) - 1), Space \o name),
        rest |-> Take(n, Len(n) - Len(name) - 1)] >>

HasShape(n, name) == \E k \in 1..5 : Shapes(n, name)[k].hit

\* n without the span of the first shape of name that matches
WithoutSpan(n, name) ==
    Shapes(n, name)[CHOOSE k \in 1..5 :
                      /\ Shapes(n, name)[k].hit
                      /\ \A j \in 1..(k - 1) : ~Shapes(n, name)[j].hit].rest

\* the countries whose name the parsed input shows in one of the shapes
CountriesInInput ==
    { i \in 1..Len(Countries) : HasShape(parse.n, Countries[i].Country) }

\* C26: country extraction: the countries are tried in the order of the
\* country sequence and the first whose name matches the input in one of the
\* five shapes wins: the parsed country is its ISO code, exactly the matched
\* span is removed from the input, and no later country is considered; with
\* no match the input is left as it is and no country is extracted.
C26_FirstCountryWins ==
    parse.pc = "returned" =>
        IF CountriesInInput = {}
        THEN parse.co = [nCo |-> NoString, n |-> parse.n]
        ELSE \E i \in CountriesInInput :
                /\ \A j \in CountriesInInput : i <= j
                /\ parse.co = [nCo |-> Countries[i].ISO,
                               n |-> WithoutSpan(parse.n, Countries[i].Country)]
                /\ parse.out.nCo = Countries[i].ISO

\* an input that shows two countries, parsed as the one first in the sequence
C26_TwoCountriesInInput ==
    /\ parse.pc = "returned"
    /\ Cardinality(CountriesInInput) >= 2
    /\ \E i \in CountriesInInput :
          /\ \A j \in CountriesInInput : i <= j
          /\ parse.out.nCo = Countries[i].ISO

\* the state codes that what the country loop left shows in one of the shapes
StatesInInput == { sc \in UsStateCodes : HasShape(parse.co.n, sc) }

\* C25: US state extraction: the state codes are tried in ascending order and
\* the first code that matches what the country loop left, in one of the five
\* shapes, wins: the region is that upper-case code, its span is removed, the
\* country becomes US only if no country was extracted before, and the
\* admin-division step is skipped.
C25_FirstStateCodeWins ==
    (parse.pc = "returned" /\ StatesInInput # {}) =>
        \E sc \in StatesInInput :
            /\ \A other \in StatesInInput \ {sc} : StringLess(sc, other)
            /\ sc = toUpper(sc)
            /\ parse.st = [nSt |-> sc, n |-> WithoutSpan(parse.co.n, sc)]
            /\ parse.out.nSt = sc
            /\ parse.out.nCo = IF parse.co.nCo = NoString THEN US ELSE parse.co.nCo
            /\ ~parse.out.adminLookup
            /\ parse.out.nSlice = Split(Trim(parse.st.n, {32, 44}), 32)

\* an input with a country and two state codes: the first code is the
\* region and the country extracted before is kept
C25_TwoCodesAfterCountry ==
    /\ parse.pc = "returned"
    /\ Cardinality(StatesInInput) >= 2
    /\ parse.co.nCo # NoString
    /\ parse.out.nCo = parse.co.nCo
    /\ \A other \in StatesInInput \ {parse.out.nSt} : StringLess(parse.out.nSt, other)

\* C29: once construction has returned, no step of Geocode or ReverseGeocode
\* reads a file or takes an exclusive lock: every step of a query, the first
\* query with a 2-3 character last token included, leaves the arena, the
\* country sequence, the two indices, the interners and the admin-division
\* cache as they were.
C29_QueriesOnlyRead ==
    [][UNCHANGED <<Cities, Countries, nameIndex, cellIndex, countryInterner,
                   regionInterner, adminDivisionsCache>>]_vars

(***************************************************************************)
(* SpecLoad: goroutines calling loadAdminDivisionsForDir for one data      *)
(* directory at the same time.                                             *)
(***************************************************************************)
\* calls each goroutine makes at most
MaxLoadCalls == 2

InitLoad ==
    /\ Constructed(<<>>, newStringInterner(MaxUint16), newStringInterner(MaxUint16))
    /\ Countries = CountryInfos
    /\ adminFile \in AdminTestFiles
    /\ adminDivisionsCache = NotLoaded
    /\ pc = "idle"
    /\ call = NoCall
    /\ scores = <<>>
    /\ result = Pending
    /\ previous = Pending
    /\ input = <<>>
    /\ handed = <<>>
    /\ InternerAtRest
    /\ BuildAtRest
    /\ AdminAtRest
    /\ ParseAtRest
    /\ IngestAtRest
    /\ LoadAtRest

LoadOtherVars ==
    <<instanceVars, pc, call, scores, result, previous, inputVars, internVars,
      buildVars, adminVars, parseVars, ingestVars>>

\* a goroutine enters loadAdminDivisionsForDir(dataDir)
LoadCall(g) ==
    /\ loaders[g].pc = "idle"
    /\ loaders[g].calls < MaxLoadCalls
    /\ loaders' = [loaders EXCEPT ![g].pc = "rlock", ![g].calls = @ + 1,
                                  ![g].via = "none"]
    /\ UNCHANGED <<adminDivisionsCache, adminDivisionsCacheMu, opens, LoadOtherVars>>

\* adminDivisionsCacheMu.RLock()
LoadRLock(g) ==
    /\ loaders[g].pc = "rlock"
    /\ CanRLock(adminDivisionsCacheMu)
    /\ adminDivisionsCacheMu' = RLock(adminDivisionsCacheMu, g)
    /\ loaders' = [loaders EXCEPT ![g].pc = "fast"]
    /\ UNCHANGED <<adminDivisionsCache, opens, LoadOtherVars>>

\* the fast path: the cache looked up under the read lock
LoadFastPath(g) ==
    /\ loaders[g].pc = "fast"
    /\ adminDivisionsCacheMu' = RUnlock(adminDivisionsCacheMu, g)
    /\ loaders' = IF adminDivisionsCache.loaded
                  THEN [loaders EXCEPT ![g].pc = "returned", ![g].via = "fast",
                                       ![g].got = adminDivisionsCache]
                  ELSE [loaders EXCEPT ![g].pc = "lock"]
    /\ UNCHANGED <<adminDivisionsCache, opens, LoadOtherVars>>

\* adminDivisionsCacheMu.Lock()
LoadLock(g) ==
    /\ loaders[g].pc = "lock"
    /\ CanLock(adminDivisionsCacheMu)
    /\ adminDivisionsCacheMu' = Lock(adminDivisionsCacheMu, g)
    /\ loaders' = [loaders EXCEPT ![g].pc = "recheck"]
    /\ UNCHANGED <<adminDivisionsCache, opens, LoadOtherVars>>

\* the second look without effect: the directory always seems not cached
CachedUnderLock_never(cache) == FALSE

\* the second look at the cache, under the write lock
CachedUnderLock(cache) == cache.loaded

\* the double check, and the deferred Unlock when it hits
LoadRecheck(g) ==
    /\ loaders[g].pc = "recheck"
    /\ IF CachedUnderLock(adminDivisionsCache)
       THEN /\ loaders' = [loaders EXCEPT ![g].pc = "returned", ![g].via = "recheck",
                                          ![g].got = adminDivisionsCache]
            /\ adminDivisionsCacheMu' = Unlock(adminDivisionsCacheMu, g)
       ELSE /\ loaders' = [loaders EXCEPT ![g].pc = "open", ![g].divisions = <<>>]
            /\ UNCHANGED adminDivisionsCacheMu
    /\ UNCHANGED <<adminDivisionsCache, opens, LoadOtherVars>>

\* os.Open: a missing file caches the empty table and returns it
LoadOpen(g) ==
    /\ loaders[g].pc = "open"
    /\ opens' = opens + 1
    /\ IF adminFile.exists
       THEN /\ loaders' = [loaders EXCEPT ![g].pc = "scan", ![g].line = 1]
            /\ UNCHANGED <<adminDivisionsCache, adminDivisionsCacheMu>>
       ELSE /\ adminDivisionsCache' = Loaded(loaders[g].divisions)
            /\ loaders' = [loaders EXCEPT ![g].pc = "returned", ![g].via = "load",
                                          ![g].got = Loaded(loaders[g].divisions)]
            /\ adminDivisionsCacheMu' = Unlock(adminDivisionsCacheMu, g)
    /\ UNCHANGED LoadOtherVars

\* one round of the scanner loop: the next line goes into the local table
LoadScan(g) ==
    /\ loaders[g].pc = "scan"
    /\ loaders[g].line <= Len(adminFile.lines)
    /\ loaders' = [loaders EXCEPT
                     ![g].divisions = ScanAdminLines(<<adminFile.lines[loaders[g].line]>>,
                                                     1, loaders[g].divisions),
                     ![g].line = @ + 1]
    /\ UNCHANGED <<adminDivisionsCache, adminDivisionsCacheMu, opens, LoadOtherVars>>

\* the end of the file: the table is stored in the cache and returned
LoadStore(g) ==
    /\ loaders[g].pc = "scan"
    /\ loaders[g].line > Len(adminFile.lines)
    /\ adminDivisionsCache' = Loaded(loaders[g].divisions)
    /\ loaders' = [loaders EXCEPT ![g].pc = "returned", ![g].via = "load",
                                  ![g].got = Loaded(loaders[g].divisions)]
    /\ adminDivisionsCacheMu' = Unlock(adminDivisionsCacheMu, g)
    /\ UNCHANGED <<opens, LoadOtherVars>>

\* the caller goes on with the table it got
LoadReturn(g) ==
    /\ loaders[g].pc = "returned"
    /\ loaders' = [loaders EXCEPT ![g].pc = "idle"]
    /\ UNCHANGED <<adminDivisionsCache, adminDivisionsCacheMu, opens, LoadOtherVars>>

NextLoad ==
    \/ \E g \in Loaders : LoadCall(g)
    \/ \E g \in Loaders : LoadRLock(g)
    \/ \E g \in Loaders : LoadFastPath(g)
    \/ \E g \in Loaders : LoadLock(g)
    \/ \E g \in Loaders : LoadRecheck(g)
    \/ \E g \in Loaders : LoadOpen(g)
    \/ \E g \in Loaders : LoadScan(g)
    \/ \E g \in Loaders : LoadStore(g)
    \/ \E g \in Loaders : LoadReturn(g)

SpecLoad == InitLoad /\ [][NextLoad]_vars

\* C28: the admin-division file of a data directory is opened at most once,
\* whether or not it exists, under any interleaving of concurrent first uses:
\* every caller obtains the same fully built table (the empty one when the
\* file is missing), and the cache never holds a partly filled table.
C28_LoadedOnce ==
    /\ opens <= 1
    /\ \A g \in Loaders :
          loaders[g].via # "none" => loaders[g].got = Loaded(ReadAdminFile(adminFile))
    /\ adminDivisionsCache.loaded
          => adminDivisionsCache = Loaded(ReadAdminFile(adminFile))

\* two goroutines both missed the fast path: one read the file, the other
\* found its table under the write lock
C28_BothMissedFastPath ==
    \E g, h \in Loaders :
        /\ loaders[g].pc = "returned" /\ loaders[g].via = "load"
        /\ loaders[h].pc = "returned" /\ loaders[h].via = "recheck"
        /\ loaders[g].got.divisions # <<>>
        /\ opens = 1

(***************************************************************************)
(* SpecIngest: processZipEntry over the lines of the cities1000 entry.     *)
(* Coordinates are kept in tenths, as integers.                            *)
(***************************************************************************)
Tab == <<9>>

\* strings.SplitN(s, sep, n) for n > 0: at most n fields, the last one the
\* unsplit rest
RECURSIVE SplitN(_, _, _)
SplitN(s, sep, n) ==
    LET hits == {k \in 1..Len(s) : s[k] = sep}
    IN  IF n = 1 \/ hits = {} THEN <<s>>
        ELSE LET k == CHOOSE h \in hits : \A j \in hits : h <= j
             IN  <<Take(s, k - 1)>> \o SplitN(Drop(s, k), sep, n - 1)

IsDigit(b) == b >= 48 /\ b <= 57

\* the number a string of decimal digits denotes
RECURSIVE DigitsValue(_)
DigitsValue(ds) ==
    IF ds = <<>> THEN 0
    ELSE 10 * DigitsValue(Take(ds, Len(ds) - 1)) + (ds[Len(ds)] - 48)

Unsigned(s) == IF s # <<>> /\ s[1] \in {43, 45} THEN Tail(s) ELSE s

Signed(s, v) == IF s # <<>> /\ s[1] = 45 THEN 0 - v ELSE v

\* strconv.ParseFloat(s, 32) on decimal notation without exponent: the value
\* in tenths, further digits cut; ok is errLat == nil
ParseFloat(s) ==
    LET body == Unsigned(s)
        parts == SplitN(body, 46, 2)
        whole == parts[1]
        frac == IF Len(parts) = 2 THEN parts[2] ELSE <<>>
        ok == /\ \A k \in 1..Len(whole) : IsDigit(whole[k])
              /\ \A k \in 1..Len(frac) : IsDigit(frac[k])
              /\ Len(whole) + Len(frac) > 0
    IN  IF ok
        THEN [ok |-> TRUE,
              val |-> Signed(s, 10 * DigitsValue(whole)
                                + (IF frac = <<>> THEN 0 ELSE frac[1] - 48))]
        ELSE [ok |-> FALSE, val |-> 0]

\* strconv.Atoi(s) within the int range: 0 and an error for anything but an
\* optional sign and digits
Atoi(s) ==
    LET body == Unsigned(s)
    IN  IF body # <<>> /\ \A k \in 1..Len(body) : IsDigit(body[k])
        THEN [ok |-> TRUE, val |-> Signed(s, DigitsValue(body))]
        ELSE [ok |-> FALSE, val |-> 0]

\* the GeobedCity built from the fields of a line, codes not yet interned
CityOfFields(fields) ==
    StoredCity(Trim(fields[2], {32}), fields[4], fields[9], fields[11],
               ParseFloat(fields[5]).val, ParseFloat(fields[6]).val,
               Atoi(fields[15]).val)

\* whether the loop body gets past its two continue statements
Converted(fields) ==
    /\ Len(fields) = 19
    /\ ParseFloat(fields[5]).ok
    /\ ParseFloat(fields[6]).ok

\* the scanner loop from line i on: cities is g.Cities, interned the codes
\* handed to internCountry and internRegion so far
RECURSIVE ScanCityLines(_, _, _)
ScanCityLines(lines, i, acc) ==
    IF i > Len(lines) THEN acc
    ELSE LET fields == SplitN(lines[i], 9, 19)
         IN  IF ~Converted(fields) THEN ScanCityLines(lines, i + 1, acc)
             ELSE ScanCityLines(lines, i + 1,
                    [cities |-> IF Len(CityOfFields(fields).City) > 0
                                THEN Append(acc.cities, CityOfFields(fields))
                                ELSE acc.cities,
                     interned |-> Append(acc.interned, CityOfFields(fields))])

\* a line of cities1000.txt with the given name, latitude, longitude and
\* population fields, and the fields after the population
CityLine(name, lat, lng, pop, tail) ==
    Join(<< Str(<<"1">>), name, name, <<>>, lat, lng, Str(<<"P">>), Str(<<"P","P","L">>),
            FR, <<>>, Str(<<"T","X">>), <<>>, <<>>, <<>>, pop >> \o tail, Tab)

\* the four fields after the population: 19 fields in all
Tail4 == << <<>>, Str(<<"9">>), Str(<<"t","z">>), Str(<<"d">>) >>

CityLines ==
    { CityLine(Str(<<"P","o">>), Str(<<"1",".","5">>), Str(<<"-","2">>), Str(<<"7","0","0">>), Tail4),
      CityLine(Str(<<"O","r">>), Str(<<"-","3">>), Str(<<"4","0",".","5">>), Str(<<"0">>), Tail4),
      CityLine(Str(<<" ","P","o"," ">>), Str(<<"2">>), Str(<<"2">>), Str(<<"5">>), Tail4),
      CityLine(Str(<<"P","o">>), Str(<<"1",".","5">>), Str(<<"-","2">>), Str(<<"7","0","0">>),
               Take(Tail4, 3)),
      CityLine(Str(<<"P","o">>), Str(<<"1",".","5">>), Str(<<"-","2">>), Str(<<"7","0","0">>),
               Tail4 \o << Str(<<"x">>) >>),
      CityLine(Str(<<"P","o">>), Str(<<"x">>), Str(<<"-","2">>), Str(<<"7","0","0">>), Tail4),
      CityLine(Str(<<"P","o">>), Str(<<"1",".","5">>), <<>>, Str(<<"7","0","0">>), Tail4),
      CityLine(Str(<<"P","o">>), Str(<<"1",".","5">>), Str(<<"-","2">>), Str(<<"x">>), Tail4),
      CityLine(Str(<<"P","o">>), Str(<<"1",".","5">>), Str(<<"-","2">>), <<>>, Tail4),
      CityLine(Str(<<" ">>), Str(<<"1",".","5">>), Str(<<"-","2">>), Str(<<"7","0","0">>), Tail4),
      <<>> }

\* lines in the entry at most
MaxLines == 2

ZipEntries == UNION { [1..k -> CityLines] : k \in 0..MaxLines }

InitIngest ==
    /\ Constructed(<<>>, newStringInterner(MaxUint16), newStringInterner(MaxUint16))
    /\ Countries = <<>>
    /\ adminFile \in AdminFiles
    /\ adminDivisionsCache = NotLoaded
    /\ pc = "idle"
    /\ call = NoCall
    /\ scores = <<>>
    /\ result = Pending
    /\ previous = Pending
    /\ input = <<>>
    /\ handed = <<>>
    /\ InternerAtRest
    /\ BuildAtRest
    /\ AdminAtRest
    /\ ParseAtRest
    /\ LoadAtRest
    /\ zipEntry \in ZipEntries
    /\ ingestPc = "idle"

\* g.Cities and the two interners after the loop left acc
Ingested(acc, cInt, rInt) ==
    /\ Cities' = ArenaOf(acc.cities, cInt, rInt)
    /\ countryInterner' = cInt
    /\ regionInterner' = rInt

\* processZipEntry(uF), the entry read to its end
processZipEntry ==
    /\ ingestPc = "idle"
    /\ Ingested(ScanCityLines(zipEntry, 1, [cities |-> <<>>, interned |-> <<>>]),
                InternAll(countryInterner,
                          CountryCodes(ScanCityLines(zipEntry, 1,
                              [cities |-> <<>>, interned |-> <<>>]).interned)),
                InternAll(regionInterner,
                          RegionCodes(ScanCityLines(zipEntry, 1,
                              [cities |-> <<>>, interned |-> <<>>]).interned)))
    /\ ingestPc' = "done"
    /\ UNCHANGED <<Countries, nameIndex, cellIndex, adminFile, queryVars, inputVars,
                   internVars, buildVars, adminVars, parseVars, zipEntry, loadVars>>

NextIngest == processZipEntry

SpecIngest == InitIngest /\ [][NextIngest]_vars

\* the retention criterion read off the line: exactly 19 tab-separated
\* fields, latitude, longitude and population that parse, and a name that is
\* not empty once trimmed
Retained(line) ==
    /\ Len(Split(line, 9)) = 19
    /\ ParseFloat(Split(line, 9)[5]).ok
    /\ ParseFloat(Split(line, 9)[6]).ok
    /\ Atoi(Split(line, 9)[15]).ok
    /\ Trim(Split(line, 9)[2], {32}) # <<>>

RetainedCities(lines) ==
    LET kept == SelectSeq(lines, Retained)
    IN  [k \in 1..Len(kept) |-> CityOfFields(Split(kept[k], 9))]

\* C27: ingest retention: a line of cities1000 is appended to the arena if
\* and only if it has exactly 19 tab-separated fields, a latitude, a longitude
\* and a population that parse, and a non-empty trimmed name; every other
\* line is dropped and leaves the arena as it was.
C27_RetentionCriterion ==
    ingestPc = "done" =>
        GobCities(Cities, countryInterner, regionInterner) = RetainedCities(zipEntry)

====
